---- MODULE Spec2Model ----
(***************************************************************************)
(* Form filling pass of src/toolCalling3.py: fill_job_application_form and *)
(* the locator resolution find_element_with_multiple_strategies it calls   *)
(* once per field (specification Spec); the extraction tool of             *)
(* src/toolCallingJobApplication.py (SpecExtract); the title / outline     *)
(* pipeline of src/chain_07_testing_chains.py (SpecChain); _fill_field of  *)
(* src/starter_code/form_filling_tool.py (SpecStarter); the keyword        *)
(* retrieval of src/chain_04_rag_chain_simple.py (SpecRag); the choice of  *)
(* the profile value inside the form filling loop (SpecValue); the field   *)
(* extraction extract_job_application_fields_with_locators of              *)
(* src/toolCalling3.py (SpecLocators); main of src/test_script.py          *)
(* (SpecScript). The programs share no state: a step of one leaves the     *)
(* variables of the others alone.                                          *)
(***************************************************************************)
EXTENDS Integers, Sequences, FiniteSets, TLC

(***************************************************************************)
(* Bounds                                                                  *)
(***************************************************************************)
\* longest field list (required_fields + optional_fields) of a pass
MaxFields == 3

\* longest list of canned responses given to a FakeListLLM
MaxResponses == 3

\* largest top_k simple_retrieval is called with
MaxTopK == 3

(***************************************************************************)
(* Python str operations, computed character by character                  *)
(***************************************************************************)
UpperCase == "ABCDEFGHIJKLMNOPQRSTUVWXYZ"
LowerCase == "abcdefghijklmnopqrstuvwxyz"

CharAt(s, i) == SubSeq(s, i, i)

\* str.lower() on one character
LowerChar(c) ==
    IF \E i \in 1..Len(UpperCase) : CharAt(UpperCase, i) = c
    THEN CharAt(LowerCase, CHOOSE i \in 1..Len(UpperCase) : CharAt(UpperCase, i) = c)
    ELSE c

\* str.lower(): every character lowered, the string taken half by half
RECURSIVE lower(_)
lower(s) ==
    IF Len(s) = 0 THEN ""
    ELSE IF Len(s) = 1 THEN LowerChar(s)
    ELSE LET half == Len(s) \div 2
         IN  lower(SubSeq(s, 1, half)) \o lower(SubSeq(s, half + 1, Len(s)))

\* str.replace(old, new) for a one-character old
RECURSIVE replace(_, _, _)
replace(s, old, new) ==
    IF Len(s) = 0 THEN ""
    ELSE (IF CharAt(s, 1) = old THEN new ELSE CharAt(s, 1))
         \o replace(SubSeq(s, 2, Len(s)), old, new)

\* the Python expression `sub in s`
contains(s, sub) ==
    \E i \in 0..(Len(s) - Len(sub)) : SubSeq(s, i + 1, i + Len(sub)) = sub

\* str.split(): the whitespace-separated words of s, the first word and then
\* the words of what follows it
RECURSIVE split(_)
split(s) ==
    LET inWord == {i \in 1..Len(s) : CharAt(s, i) # " "}
    IN  IF inWord = {} THEN << >>
        ELSE LET first == CHOOSE i \in inWord : \A j \in inWord : i <= j
                 ends  == {i \in first..Len(s) :
                              i = Len(s) \/ CharAt(s, i + 1) = " "}
                 last  == CHOOSE i \in ends : \A j \in ends : i <= j
             IN  << SubSeq(s, first, last) >> \o split(SubSeq(s, last + 1, Len(s)))

(***************************************************************************)
(* selenium.webdriver.common.by.By                                         *)
(***************************************************************************)
By_ID           == "id"
By_NAME         == "name"
By_XPATH        == "xpath"
By_CSS_SELECTOR == "css selector"
By_CLASS_NAME   == "class name"
By_TAG_NAME     == "tag name"

\* the locator strategies the webdriver accepts; any other raises
SupportedBy ==
    {By_ID, By_NAME, By_XPATH, By_CSS_SELECTOR, By_CLASS_NAME, By_TAG_NAME,
     "link text", "partial link text"}

\* the XPath probes of the category branches
XPathPlaceholderName  == "//input[contains(@placeholder, 'name')]"
XPathAriaLabelName    == "//input[contains(@aria-label, 'name')]"
XPathTypeEmail        == "//input[@type='email']"
XPathPlaceholderEmail == "//input[contains(@placeholder, 'email')]"
XPathTypeTel          == "//input[@type='tel']"
XPathPlaceholderPhone == "//input[contains(@placeholder, 'phone')]"

(***************************************************************************)
(* Pages: a document is the sequence of its form elements in document      *)
(* order; an absent attribute is the empty string.                         *)
(***************************************************************************)
Element(tag, type, id, name, placeholder, aria, interactable, options) ==
    [tag |-> tag, type |-> type, id |-> id, name |-> name,
     placeholder |-> placeholder, aria_label |-> aria, interactable |-> interactable,
     options |-> options, value |-> "", selected |-> 0]

Option(text, value) == [text |-> text, value |-> value]

\* a hosted application form whose ids are the ones the extraction reports
PageAshby ==
    << Element("input", "text", "_systemfield_name", "_systemfield_name",
               "Type here...", "", TRUE, << >>),
       Element("input", "email", "_systemfield_email", "_systemfield_email",
               "hello@example.com...", "", TRUE, << >>),
       Element("input", "tel", "", "phone", "", "", TRUE, << >>),
       Element("select", "", "country", "", "", "", TRUE,
               << Option("Canada", "CA"), Option("United States", "US") >>) >>

\* a form without ids or names, recognisable by type and placeholder only
PageGeneric ==
    << Element("input", "text", "", "", "Your name", "", TRUE, << >>),
       Element("input", "email", "", "", "you@example.com", "", FALSE, << >>),
       Element("input", "tel", "", "", "Your phone number", "", TRUE, << >>),
       Element("select", "", "", "country", "", "", TRUE,
               << Option("Deutschland", "DE"), Option("France", "FR") >>) >>

\* a form addressed by the name / id conventions of the fallback candidates
PageByName ==
    << Element("input", "text", "", "first-name", "", "Full name", TRUE, << >>),
       Element("input", "text", "email_address", "", "name@example.com", "", TRUE, << >>),
       Element("input", "text", "favorite-color", "", "", "", FALSE, << >>),
       Element("div", "", "country", "", "", "", TRUE, << >>) >>

PageEmpty == << >>

Pages == {PageAshby, PageGeneric, PageByName, PageEmpty}

(***************************************************************************)
(* Field descriptors: the dictionaries of required_fields/optional_fields. *)
(***************************************************************************)
FieldInfo(name, type, locator_type, locator_value, required) ==
    [field_name |-> name, field_type |-> type, locator_type |-> locator_type,
     locator_value |-> locator_value, is_required |-> required]

FieldFirstName == FieldInfo("First Name", "text", "id", "_systemfield_name", TRUE)
FieldEmail     == FieldInfo("Email Address", "email", "id", "_systemfield_email", TRUE)
FieldLogin     == FieldInfo("Username or Email", "email", "name", "login", FALSE)
FieldPhone     == FieldInfo("Phone", "tel", "name", "phone", FALSE)
FieldCountry   == FieldInfo("Country", "select", "id", "country", TRUE)
FieldColor     == FieldInfo("Favorite Color", "text", "label", "Favorite Color", FALSE)

\* a descriptor the extraction returned without locator keys
FieldNoLocator ==
    [field_name |-> "Email Address", field_type |-> "email", is_required |-> TRUE]

FieldPool ==
    {FieldFirstName, FieldEmail, FieldLogin, FieldPhone, FieldCountry, FieldColor,
     FieldNoLocator}

\* FormField(**field_info): the keys without a default must be present
FormFieldValid(field_info) ==
    {"field_name", "field_type", "locator_type", "locator_value", "is_required"}
        \subseteq DOMAIN field_info

(***************************************************************************)
(* find_element_with_multiple_strategies                                   *)
(***************************************************************************)
Strategy(locator_type, locator_value) == [by |-> locator_type, value |-> locator_value]

\* the extra XPath probes of the if / elif / elif over the field's name
CategoryStrategies(field_name) ==
    IF contains(lower(field_name), "name")
    THEN << Strategy(By_XPATH, XPathPlaceholderName),
            Strategy(By_XPATH, XPathAriaLabelName) >>
    ELSE IF contains(lower(field_name), "email")
    THEN << Strategy(By_XPATH, XPathTypeEmail),
            Strategy(By_XPATH, XPathPlaceholderEmail) >>
    ELSE IF contains(lower(field_name), "phone")
    THEN << Strategy(By_XPATH, XPathTypeTel),
            Strategy(By_XPATH, XPathPlaceholderPhone) >>
    ELSE << >>

\* mutant: the declared locator is tried after the fallback candidates
StrategiesDeclaredLast(field) ==
    << Strategy(By_NAME, replace(lower(field.field_name), " ", "_")),
       Strategy(By_NAME, replace(lower(field.field_name), " ", "-")),
       Strategy(By_ID, replace(lower(field.field_name), " ", "_")),
       Strategy(By_ID, replace(lower(field.field_name), " ", "-")),
       Strategy(field.locator_type, field.locator_value) >>
    \o CategoryStrategies(field.field_name)

\* mutant: the by-id candidates come before the by-name candidates
StrategiesIdBeforeName(field) ==
    << Strategy(field.locator_type, field.locator_value),
       Strategy(By_ID, replace(lower(field.field_name), " ", "_")),
       Strategy(By_ID, replace(lower(field.field_name), " ", "-")),
       Strategy(By_NAME, replace(lower(field.field_name), " ", "_")),
       Strategy(By_NAME, replace(lower(field.field_name), " ", "-")) >>
    \o CategoryStrategies(field.field_name)

\* the list `strategies` built at the top of the function
Strategies(field) ==
    << Strategy(field.locator_type, field.locator_value),
       Strategy(By_NAME, replace(lower(field.field_name), " ", "_")),
       Strategy(By_NAME, replace(lower(field.field_name), " ", "-")),
       Strategy(By_ID, replace(lower(field.field_name), " ", "_")),
       Strategy(By_ID, replace(lower(field.field_name), " ", "-")) >>
    \o CategoryStrategies(field.field_name)

\* the if / elif chain that turns a declared locator type into a By constant
NormaliseLocatorType(locator_type) ==
    IF locator_type = "css_selector" THEN By_CSS_SELECTOR
    ELSE IF locator_type = "xpath" THEN By_XPATH
    ELSE IF locator_type = "id" THEN By_ID
    ELSE IF locator_type = "name" THEN By_NAME
    ELSE IF locator_type = "class_name" THEN By_CLASS_NAME
    ELSE locator_type

\* the browser's evaluation of the XPath expressions the function uses
\* (XPath contains() and = are case-sensitive)
XPathMatches(el, expr) ==
    /\ el.tag = "input"
    /\ CASE expr = XPathPlaceholderName  -> contains(el.placeholder, "name")
         [] expr = XPathAriaLabelName    -> contains(el.aria_label, "name")
         [] expr = XPathTypeEmail        -> el.type = "email"
         [] expr = XPathPlaceholderEmail -> contains(el.placeholder, "email")
         [] expr = XPathTypeTel          -> el.type = "tel"
         [] expr = XPathPlaceholderPhone -> contains(el.placeholder, "phone")
         [] OTHER -> FALSE

\* does the element satisfy the locator (by, value)
Matches(el, by, value) ==
    CASE by = By_ID       -> value # "" /\ el.id = value
      [] by = By_NAME     -> value # "" /\ el.name = value
      [] by = By_XPATH    -> XPathMatches(el, value)
      [] by = By_TAG_NAME -> el.tag = value
      [] OTHER -> FALSE

\* WebDriverWait(driver, 3).until(presence_of_element_located(locator)):
\* the first matching element in document order, a TimeoutException when no
\* element matches, another exception when the driver rejects the locator
None == 0

Locate(dom, by, value) ==
    IF by \notin SupportedBy
    THEN [kind |-> "InvalidArgumentException", element |-> None]
    ELSE IF \E i \in 1..Len(dom) : Matches(dom[i], by, value)
    THEN [kind |-> "found",
          element |-> CHOOSE i \in 1..Len(dom) :
                         /\ Matches(dom[i], by, value)
                         /\ \A j \in 1..(i - 1) : ~Matches(dom[j], by, value)]
    ELSE [kind |-> "TimeoutException", element |-> None]

\* mutant: the handler catches the wait's timeout only
CaughtTimeoutOnly(kind) == kind = "TimeoutException"

\* `except Exception`: the exception classes the probe's handler catches
Caught(kind) == kind \in {"TimeoutException", "InvalidArgumentException"}

Step(element, raised, position, returns) ==
    [element |-> element, raised |-> raised, position |-> position,
     returns |-> returns]

\* mutant: a hit is remembered but the loop goes on, the last hit wins
ProbeStepKeepsGoing(found, element, position, last) ==
    IF found.kind = "found"
    THEN Step(found.element, "", position + 1, position = last)
    ELSE IF ~Caught(found.kind)
    THEN Step(element, found.kind, position, TRUE)
    ELSE Step(element, "", position + 1, position = last)

\* mutant: a candidate that failed is tried again
ProbeStepRetries(found, element, position, last) ==
    IF found.kind = "found"
    THEN Step(found.element, "", position, TRUE)
    ELSE IF ~Caught(found.kind)
    THEN Step(element, found.kind, position, TRUE)
    ELSE Step(element, "", position, FALSE)

\* one iteration of `for strategy in strategies` on the probe's outcome: a
\* hit returns the element, a caught failure goes on to the next candidate,
\* the end of the list returns None
ProbeStep(found, element, position, last) ==
    IF found.kind = "found"
    THEN Step(found.element, "", position, TRUE)
    ELSE IF ~Caught(found.kind)
    THEN Step(element, found.kind, position, TRUE)
    ELSE Step(element, "", position + 1, position = last)

(***************************************************************************)
(* fill_job_application_form: the profile and the per-field interaction    *)
(***************************************************************************)
\* DUMMY_PROFILE, flattened as field_mapping reads it
DUMMY_PROFILE ==
    [first_name |-> "John", last_name |-> "Doe", email |-> "john.doe@email.com",
     phone |-> "+1-555-123-4567", linkedin |-> "https://linkedin.com/in/johndoe",
     website |-> "https://johndoe.dev", github |-> "https://github.com/johndoe",
     street |-> "123 Main St", city |-> "San Francisco", state |-> "CA",
     zip_code |-> "94105", country |-> "United States",
     work_authorization |-> "US Citizen", experience_years |-> "3-5 years",
     salary_expectation |-> "$120,000", availability |-> "2 weeks notice",
     degree |-> "Bachelor of Science", major |-> "Computer Science",
     university |-> "University of California, Berkeley",
     graduation_year |-> "2020",
     skills |-> "Python, JavaScript, React, Node.js, SQL, AWS",
     cover_letter |-> "I am excited to apply for this position and believe my experience in software development makes me a strong candidate.",
     additional_info |-> "I am passionate about building scalable applications and have experience working in agile environments."]

Mapping(key, value) == [key |-> key, value |-> value]

\* the dict field_mapping, in insertion order
field_mapping(profile) ==
    << Mapping("first name", profile.first_name),
       Mapping("last name", profile.last_name),
       Mapping("email", profile.email),
       Mapping("phone", profile.phone),
       Mapping("linkedin", profile.linkedin),
       Mapping("website", profile.website),
       Mapping("github", profile.github),
       Mapping("address", profile.street),
       Mapping("street", profile.street),
       Mapping("city", profile.city),
       Mapping("state", profile.state),
       Mapping("zip", profile.zip_code),
       Mapping("zip code", profile.zip_code),
       Mapping("country", profile.country),
       Mapping("work authorization", profile.work_authorization),
       Mapping("experience", profile.experience_years),
       Mapping("salary", profile.salary_expectation),
       Mapping("availability", profile.availability),
       Mapping("skills", profile.skills),
       Mapping("degree", profile.degree),
       Mapping("major", profile.major),
       Mapping("university", profile.university),
       Mapping("graduation", profile.graduation_year),
       Mapping("cover letter", profile.cover_letter),
       Mapping("additional information", profile.additional_info),
       Mapping("why", profile.cover_letter),
       Mapping("motivation", profile.cover_letter) >>

\* where a `for ... : if hit: ...; break` loop stops: the least of the
\* positions that hit, 0 when there is none
FirstIndex(hits) ==
    IF hits = {} THEN 0 ELSE CHOOSE i \in hits : \A j \in hits : i <= j

\* value of the first entry of the mapping among the hits, "" when there is
\* none (None and "" are both falsy)
FirstValue(mapping, hits) ==
    IF hits = {} THEN "" ELSE mapping[FirstIndex(hits)].value

\* value_to_fill: whole-key match first, then any word of a key
ValueToFill(mapping, field_name) ==
    LET whole == {i \in 1..Len(mapping) : contains(field_name, mapping[i].key)}
        word  == {i \in 1..Len(mapping) :
                     \E w \in 1..Len(split(mapping[i].key)) :
                         contains(field_name, split(mapping[i].key)[w])}
    IN  IF FirstValue(mapping, whole) # ""
        THEN FirstValue(mapping, whole)
        ELSE FirstValue(mapping, word)

Interaction(raised, faults, dom) == [raised |-> raised, faults |-> faults, dom |-> dom]

\* an element that accepts clear() and send_keys()
Editable(el) == el.interactable /\ el.tag \in {"input", "textarea"}

\* simulate_human_typing: clear(), then one send_keys per character
simulate_human_typing(dom, element, text) ==
    IF Editable(dom[element])
    THEN Interaction("", << >>, [dom EXCEPT ![element].value = text])
    ELSE Interaction("InvalidElementStateException",
                     << "InvalidElementStateException" >>, dom)

\* the select branch: by visible text, else by value, else the first option
\* whose text contains the value; the two bare excepts swallow the faults
SelectOption(dom, element, value) ==
    LET options   == dom[element].options
        byText    == {i \in 1..Len(options) : options[i].text = value}
        byValue   == {i \in 1..Len(options) : options[i].value = value}
        bySubstr  == {i \in 1..Len(options) :
                         contains(lower(options[i].text), lower(value))}
        choose(i) == [dom EXCEPT ![element].selected = i]
        noSuch    == "NoSuchElementException"
    IN  IF dom[element].tag # "select"
        THEN Interaction("UnexpectedTagNameException",
                         << "UnexpectedTagNameException" >>, dom)
        ELSE IF byText # {}
        THEN Interaction("", << >>, choose(FirstIndex(byText)))
        ELSE IF byValue # {}
        THEN Interaction("", << noSuch >>, choose(FirstIndex(byValue)))
        ELSE IF bySubstr # {}
        THEN Interaction("", << noSuch, noSuch >>, choose(FirstIndex(bySubstr)))
        ELSE Interaction("", << noSuch, noSuch >>, dom)

\* the checkbox / radio branch
ClickIfUnselected(dom, element) ==
    IF dom[element].selected # 0
    THEN Interaction("", << >>, dom)
    ELSE IF dom[element].interactable
    THEN Interaction("", << >>, [dom EXCEPT ![element].selected = 1])
    ELSE Interaction("ElementNotInteractableException",
                     << "ElementNotInteractableException" >>, dom)

\* the if / elif chain over field_type
Interact(dom, element, field_type, value) ==
    IF field_type \in {"text", "email", "tel", "url", "password"}
    THEN simulate_human_typing(dom, element, value)
    ELSE IF field_type = "textarea"
    THEN simulate_human_typing(dom, element, value)
    ELSE IF field_type = "select"
    THEN SelectOption(dom, element, value)
    ELSE IF field_type \in {"checkbox", "radio"}
    THEN ClickIfUnselected(dom, element)
    ELSE Interaction("", << >>, dom)

NotFoundError == "Element not found with any strategy"
NoProfileDataError == "No matching profile data found"

Outcome(filled, error, faults, dom) ==
    [filled |-> filled, error |-> error, faults |-> faults, dom |-> dom]

\* mutant: the append sits after the try block and runs for every field
FilledAfterAlways(filled, field_info, outcome) ==
    Append(filled, field_info.field_name)

\* mutant: the name is put at the front of the list
FilledAfterPrepend(filled, field_info, outcome) ==
    IF outcome.filled THEN << field_info.field_name >> \o filled ELSE filled

\* filled_fields.append(field_info["field_name"]) at the end of the try block
FilledAfter(filled, field_info, outcome) ==
    IF outcome.filled THEN Append(filled, field_info.field_name) ELSE filled

\* the failed_fields.append of the two early exits and of the except block
FailedAfter(failed, field_info, outcome) ==
    IF outcome.filled THEN failed
    ELSE Append(failed, [field_name |-> field_info.field_name,
                         error |-> outcome.error])

\* mutant: the `if not element` exit is missing, the script that scrolls
\* to the element raises on None and the handler of the field records that
FieldOutcomeNoneUnchecked(dom, field_info, lookup_raised, element, mapping) ==
    IF lookup_raised # ""
    THEN Outcome(FALSE, lookup_raised, << >>, dom)
    ELSE IF element = None
    THEN Outcome(FALSE, "JavascriptException", << >>, dom)
    ELSE IF ValueToFill(mapping, lower(field_info.field_name)) = ""
    THEN Outcome(FALSE, NoProfileDataError, << >>, dom)
    ELSE LET done == Interact(dom, element, field_info.field_type,
                              ValueToFill(mapping, lower(field_info.field_name)))
         IN  IF done.raised # ""
             THEN Outcome(FALSE, done.raised, done.faults, done.dom)
             ELSE Outcome(TRUE, "", done.faults, done.dom)

\* the body of the field loop after the lookup: what is recorded for the
\* field and what becomes of the page
FieldOutcome(dom, field_info, lookup_raised, element, mapping) ==
    IF lookup_raised # ""
    THEN Outcome(FALSE, lookup_raised, << >>, dom)
    ELSE IF element = None
    THEN Outcome(FALSE, NotFoundError, << >>, dom)
    ELSE IF ValueToFill(mapping, lower(field_info.field_name)) = ""
    THEN Outcome(FALSE, NoProfileDataError, << >>, dom)
    ELSE LET done == Interact(dom, element, field_info.field_type,
                              ValueToFill(mapping, lower(field_info.field_name)))
         IN  IF done.raised # ""
             THEN Outcome(FALSE, done.raised, done.faults, done.dom)
             ELSE Outcome(TRUE, "", done.faults, done.dom)

\* round(x, 2) of x = num / den, in hundredths (ties go to the even digit)
Round2(num, den) ==
    LET scaled == num * 100
        q      == scaled \div den
        r      == scaled % den
    IN  IF 2 * r < den THEN q
        ELSE IF 2 * r > den THEN q + 1
        ELSE IF q % 2 = 0 THEN q ELSE q + 1

\* mutant: the rate is cut to two decimals instead of rounded
SuccessRateTruncated(filled, total_fields) ==
    IF total_fields > 0 THEN (filled * 10000) \div total_fields ELSE 0

\* success_rate as returned, in hundredths of a percent
SuccessRate(filled, total_fields) ==
    IF total_fields > 0 THEN Round2(filled * 100, total_fields) ELSE 0

\* mutant: a pass that filled nothing is reported as partial
StatusNeverError(filled, total_fields) ==
    IF filled = total_fields THEN "success" ELSE "partial"

\* the overall status
Status(filled, total_fields) ==
    IF filled = total_fields THEN "success"
    ELSE IF filled > 0 THEN "partial"
    ELSE "error"

(***************************************************************************)
(* State of one call of fill_job_application_form                          *)
(***************************************************************************)
VARIABLES
    pc,              \* where the call is: "idle", "loop", "probe", "fill", "done"
    dom,             \* the page the driver shows: elements with their values
    driver,          \* "none", "open", "quit" or "quit failed"
    all_fields,      \* required_fields + optional_fields
    processed,       \* number of fields the for loop has finished with
    strategies,      \* candidate list of the running lookup
    position,        \* index in strategies of the next candidate to probe
    probed,          \* indexes of the candidates the running lookup has probed
    element,         \* what the lookup returned: an index into dom, or None
    lookup_raised,   \* the exception the lookup let escape, "" when none
    faults,          \* exceptions raised while interacting with the last field
    filled_fields,
    failed_fields,
    result,          \* the dictionary returned, NoResult until then
    previous,        \* history: the last lookup of the pass that returned
    field_data       \* the argument of the call: what json.loads makes of it

fill_vars == << pc, dom, driver, all_fields, processed, strategies, position,
                probed, element, lookup_raised, faults, filled_fields,
                failed_fields, result, previous, field_data >>

\* One call of _extract_job_application_info_core, made directly or through
\* the tool extract_required_job_application_information
\* (src/toolCallingJobApplication.py)
VARIABLES
    extract_pc,      \* "idle", "chrome", "get", "wait", "source", "llm", "except",
                     \* "finally", "done"
    called_as,       \* "tool" or "core"
    raise_on_error,
    extract_url,
    extract_driver,  \* "none", "open", "quit" or "quit failed"
    extract_error,   \* the exception the try block raised, NoException if none
    extract_pending, \* what the function is about to hand out while finally runs
    extract_result,  \* the dictionary returned, NoResult until then
    extract_raised   \* the exception that left the function, NoException if none

extract_vars == << extract_pc, called_as, raise_on_error, extract_url,
                   extract_driver, extract_error, extract_pending,
                   extract_result, extract_raised >>

\* One run of the title / outline pipeline on a FakeListLLM
\* (src/chain_07_testing_chains.py)
VARIABLES
    chain_pc,        \* "idle", "running", "done"
    fake_llm,        \* the FakeListLLM: its responses and its index i
    chain_values,    \* the dictionary the pipeline hands from chain to chain
    chain_index,     \* position in chains of the next chain to run
    llm_prompts,     \* the prompts the FakeListLLM was called with, in order
    chain_result     \* what the pipeline returned or raised, NoRun until then

chain_vars == << chain_pc, fake_llm, chain_values, chain_index, llm_prompts,
                 chain_result >>

\* One call of _fill_field (src/starter_code/form_filling_tool.py)
VARIABLES
    starter_pc,          \* "idle", "locate", "fill", "done"
    starter_dom,         \* the page the driver shows
    starter_field,       \* the field dictionary
    starter_profile,     \* the profile dictionary
    starter_position,    \* index in locators of the next locator to try
    starter_element,     \* the element located: an index into the page, or None
    starter_interaction, \* history: "none", "send_keys" or "select"
    starter_returned     \* "" until the call has returned, then TRUE or FALSE

starter_vars == << starter_pc, starter_dom, starter_field, starter_profile,
                   starter_position, starter_element, starter_interaction,
                   starter_returned >>

\* One call of ask_question (src/chain_04_rag_chain_simple.py) up to the
\* context it hands to the model
VARIABLES
    rag_pc,          \* "idle", "score", "done"
    query,
    top_k,
    scored_docs,     \* the (overlap, doc) pairs appended so far
    relevant_docs,   \* what simple_retrieval returned
    context          \* the context of the prompt, "" until it is built

rag_vars == << rag_pc, query, top_k, scored_docs, relevant_docs, context >>

\* The choice of the profile value for one field inside the loop of
\* fill_job_application_form (src/toolCalling3.py, lines 539-558), one turn
\* of its two for loops at a time
VARIABLES
    value_pc,          \* "idle", "first", "second", "done"
    value_field_name,  \* field_info["field_name"].lower()
    value_mapping,     \* field_mapping, in insertion order
    value_key,         \* the position of the for loop in field_mapping.items()
    value_to_fill,     \* "" stands for None as well: both are falsy
    value_error        \* the error appended to failed_fields, "" when none

value_vars == << value_pc, value_field_name, value_mapping, value_key,
                 value_to_fill, value_error >>

\* One call of extract_job_application_fields_with_locators
\* (src/toolCalling3.py, lines 177-402)
VARIABLES
    locators_pc,       \* "idle", the statement to run next, "except",
                       \* "fallback", "finally", "done"
    locators_url,
    locators_driver,   \* "none", "open", "quit", "quit failed"
    assigned,          \* which of page_title, html_content, body_text are bound
    invocations,       \* the calls of structured_llm.invoke made so far
    locators_error,    \* the exception e of the except block
    locators_pending,  \* the dictionary of a return waiting for the finally block
    locators_result    \* what the call returned

locators_vars == << locators_pc, locators_url, locators_driver, assigned,
                    invocations, locators_error, locators_pending,
                    locators_result >>

\* One run of src/test_script.py. A value that can be None is held as a
\* sequence: << >> for None, << d >> for the dictionary d.
VARIABLES
    script_pc,          \* "idle", "filling", "saving", "summary", "done"
    test_url,
    extraction_status,  \* the status the extraction tool returned, "" before
    extraction_result,  \* what test_field_extraction returned
    filling_result,     \* what test_form_filling returned
    steps,              \* the tools invoked so far, in order
    script_raised,      \* the exception that ended the run, "" when none
    exit_code           \* the exit status of the process, -1 while it runs

script_vars == << script_pc, test_url, extraction_status, extraction_result,
                 filling_result, steps, script_raised, exit_code >>

\* what a step of one program leaves alone: the state of the other programs
outside_fill    == << extract_vars, chain_vars, starter_vars, rag_vars,
                      value_vars, locators_vars, script_vars >>
outside_extract == << fill_vars, chain_vars, starter_vars, rag_vars,
                      value_vars, locators_vars, script_vars >>
outside_chain   == << fill_vars, extract_vars, starter_vars, rag_vars,
                      value_vars, locators_vars, script_vars >>
outside_starter == << fill_vars, extract_vars, chain_vars, rag_vars,
                      value_vars, locators_vars, script_vars >>
outside_rag     == << fill_vars, extract_vars, chain_vars, starter_vars,
                      value_vars, locators_vars, script_vars >>

vars == << fill_vars, extract_vars, chain_vars, starter_vars, rag_vars,
          value_vars, locators_vars, script_vars >>

\* no lookup has returned yet
NoLookup == [called |-> FALSE]

\* a call of find_element_with_multiple_strategies that returned: the field
\* and the page it was given, the candidates it probed, what came back
LookupRecord(field_info, page, candidates, probes, returned, raised) ==
    [called |-> TRUE, field |-> field_info, dom |-> page,
     strategies |-> candidates, probed |-> probes, element |-> returned,
     raised |-> raised]

NoResult == [filling_status |-> "none"]

\* the lists of at most n descriptors of the pool
Lists(pool, n) == UNION {[1..k -> pool] : k \in 0..n}

\* the descriptors the extraction puts in required_fields and those it puts
\* in optional_fields (it sets is_required accordingly)
RequiredPool == {f \in FieldPool : f.is_required}
OptionalPool == {f \in FieldPool : ~f.is_required}

\* the values of all_fields = fields_info["required_fields"] +
\* fields_info["optional_fields"] with at most MaxFields descriptors
FieldLists ==
    UNION {{required \o optional :
               optional \in Lists(OptionalPool, MaxFields - Len(required))} :
           required \in Lists(RequiredPool, MaxFields)}

\* what field_data can hold: text that is not JSON, or an object with or
\* without an extraction_status ("" when absent) that may lack one of the
\* keys the function indexes (missing names the first one it lacks)
FieldData ==
    [valid_json : BOOLEAN,
     extraction_status : {"success", "partial", "error", ""},
     missing : {"", "url", "required_fields", "optional_fields"}]

\* mutant: a partial extraction is accepted
ValidatedPartialToo(data) ==
    IF ~data.valid_json THEN "Invalid JSON data"
    ELSE IF data.extraction_status \notin {"success", "partial"}
    THEN "Invalid field data - extraction was not successful"
    ELSE IF data.missing # "" THEN "Unexpected error: '" \o data.missing \o "'"
    ELSE ""

\* the statements before the browser is set up: the error_message of the
\* return they end in, "" when field_data passes
Validated(data) ==
    IF ~data.valid_json THEN "Invalid JSON data"
    ELSE IF data.extraction_status # "success"
    THEN "Invalid field data - extraction was not successful"
    ELSE IF data.missing # "" THEN "Unexpected error: '" \o data.missing \o "'"
    ELSE ""

Failed(field_info, error) == [field_name |-> field_info.field_name, error |-> error]

\* the dictionary of the normal return
FillingResult(filled, failed, screenshot, total_fields) ==
    [filling_status |-> Status(Len(filled), total_fields),
     filled_fields |-> filled, failed_fields |-> failed,
     screenshot_path |-> screenshot, total_fields |-> total_fields,
     success_rate |-> SuccessRate(Len(filled), total_fields)]

\* mutant: the except blocks let the exception out of the function
Unhandled(message, filled, failed, screenshot, total_fields) ==
    [raised |-> message]

\* the dictionary of the three except blocks and of the validation return
ErrorResult(message, filled, failed, screenshot, total_fields) ==
    [filling_status |-> "error", error_message |-> message,
     filled_fields |-> filled, failed_fields |-> failed,
     screenshot_path |-> screenshot, total_fields |-> total_fields,
     success_rate |-> 0]

\* take_screenshot in the inner except block: "" when it raises as well
ErrorScreenshots == {"screenshots/error_form.png", ""}

\* mutant: the finally block leaves the session open
QuitSkipped == {"open"}

\* driver.quit() in the finally block: a failure is logged and dropped
QuitOutcomes == {"quit", "quit failed"}

FillInit ==
    /\ pc = "idle"
    /\ dom = << >>
    /\ driver = "none"
    /\ all_fields = << >>
    /\ processed = 0
    /\ strategies = << >>
    /\ position = 0
    /\ probed = << >>
    /\ element = None
    /\ lookup_raised = ""
    /\ faults = << >>
    /\ filled_fields = << >>
    /\ failed_fields = << >>
    /\ result = NoResult
    /\ previous = NoLookup
    /\ field_data = [valid_json |-> FALSE, extraction_status |-> "", missing |-> ""]

\* the call is rejected before a browser exists: field_data is not JSON, the
\* extraction it reports was not successful, or a key is missing
Reject ==
    /\ pc = "idle"
    /\ \E data \in FieldData :
          /\ Validated(data) # ""
          /\ field_data' = data
          /\ result' = ErrorResult(Validated(data), << >>, << >>, "", 0)
    /\ pc' = "done"
    /\ UNCHANGED << dom, driver, all_fields, processed, strategies, position,
                    probed, element, lookup_raised, faults, filled_fields,
                    failed_fields >>
    /\ UNCHANGED << previous, outside_fill >>

\* the browser fails to start, to load the page or to take the first
\* screenshot, or the profile lacks a key field_mapping indexes: the inner
\* except block returns, the finally block quits
StartFails ==
    /\ pc = "idle"
    /\ \E data \in FieldData, fields \in FieldLists, started \in BOOLEAN,
          error \in {"WebDriverException", "KeyError"},
          shot \in ErrorScreenshots, quit \in QuitOutcomes :
          /\ Validated(data) = ""
          /\ error = "KeyError" => started
          /\ field_data' = data
          /\ all_fields' = fields
          /\ driver' = IF started THEN quit ELSE "none"
          /\ result' = ErrorResult(error, << >>, << >>,
                                   IF started THEN shot ELSE "", Len(fields))
    /\ pc' = "done"
    /\ UNCHANGED << dom, processed, strategies, position, probed, element,
                    lookup_raised, faults, filled_fields, failed_fields >>
    /\ UNCHANGED << previous, outside_fill >>

\* field_data parses, the browser starts and shows the page, field_mapping
\* is built: the field loop is entered
Start ==
    /\ pc = "idle"
    /\ \E data \in FieldData, fields \in FieldLists, page \in Pages :
          /\ Validated(data) = ""
          /\ field_data' = data
          /\ all_fields' = fields
          /\ dom' = page
    /\ driver' = "open"
    /\ filled_fields' = << >>
    /\ failed_fields' = << >>
    /\ processed' = 0
    /\ pc' = "loop"
    /\ UNCHANGED << strategies, position, probed, element, lookup_raised,
                    faults, result >>
    /\ UNCHANGED << previous, outside_fill >>

\* mutant: a lookup takes up the candidates where the lookup before it stopped
BeginFieldResumes ==
    /\ pc = "loop"
    /\ processed < Len(all_fields)
    /\ LET field_info == all_fields[processed + 1]
       IN  IF FormFieldValid(field_info)
           THEN /\ strategies' = Strategies(field_info)
                /\ position' = IF position = 0 THEN 1 ELSE position
                /\ probed' = << >>
                /\ element' = None
                /\ lookup_raised' = ""
                /\ pc' = "probe"
                /\ UNCHANGED << failed_fields, processed >>
           ELSE /\ failed_fields' = Append(failed_fields,
                                           Failed(field_info, "ValidationError"))
                /\ processed' = processed + 1
                /\ UNCHANGED << strategies, position, probed, element,
                                lookup_raised, pc >>
    /\ faults' = << >>
    /\ UNCHANGED << dom, driver, all_fields, filled_fields, result >>
    /\ UNCHANGED << previous, field_data, outside_fill >>

\* top of the loop body: FormField(**field_info), then the lookup starts
BeginField ==
    /\ pc = "loop"
    /\ processed < Len(all_fields)
    /\ LET field_info == all_fields[processed + 1]
       IN  IF FormFieldValid(field_info)
           THEN /\ strategies' = Strategies(field_info)
                /\ position' = 1
                /\ probed' = << >>
                /\ element' = None
                /\ lookup_raised' = ""
                /\ pc' = "probe"
                /\ UNCHANGED << failed_fields, processed >>
           ELSE /\ failed_fields' = Append(failed_fields,
                                           Failed(field_info, "ValidationError"))
                /\ processed' = processed + 1
                /\ UNCHANGED << strategies, position, probed, element,
                                lookup_raised, pc >>
    /\ faults' = << >>
    /\ UNCHANGED << dom, driver, all_fields, filled_fields, result >>
    /\ UNCHANGED << previous, field_data, outside_fill >>

\* mutant: the lookup clears the element it located
ProbeClears ==
    /\ pc = "probe"
    /\ LET strategy == strategies[position]
           found    == Locate(dom, NormaliseLocatorType(strategy.by), strategy.value)
           step     == ProbeStep(found, element, position, Len(strategies))
       IN  /\ probed' = Append(probed, position)
           /\ element' = step.element
           /\ lookup_raised' = step.raised
           /\ position' = step.position
           /\ pc' = IF step.returns THEN "fill" ELSE "probe"
           /\ dom' = IF found.kind = "found"
                     THEN [dom EXCEPT ![found.element].value = ""]
                     ELSE dom
    /\ UNCHANGED << driver, all_fields, processed, strategies, faults,
                    filled_fields, failed_fields, result >>
    /\ UNCHANGED << previous, field_data, outside_fill >>

\* one iteration of `for strategy in strategies`; the page does not change
\* while the lookup runs
Probe ==
    /\ pc = "probe"
    /\ LET strategy == strategies[position]
           found    == Locate(dom, NormaliseLocatorType(strategy.by), strategy.value)
           step     == ProbeStep(found, element, position, Len(strategies))
       IN  /\ probed' = Append(probed, position)
           /\ element' = step.element
           /\ lookup_raised' = step.raised
           /\ position' = step.position
           /\ pc' = IF step.returns THEN "fill" ELSE "probe"
    /\ UNCHANGED << dom, driver, all_fields, processed, strategies, faults,
                    filled_fields, failed_fields, result >>
    /\ UNCHANGED << previous, field_data, outside_fill >>

\* the rest of the loop body: the field is recorded as filled or as failed
FillField ==
    /\ pc = "fill"
    /\ LET field_info == all_fields[processed + 1]
           outcome    == FieldOutcome(dom, field_info, lookup_raised, element,
                                      field_mapping(DUMMY_PROFILE))
       IN  /\ dom' = outcome.dom
           /\ faults' = outcome.faults
           /\ filled_fields' = FilledAfter(filled_fields, field_info, outcome)
           /\ failed_fields' = FailedAfter(failed_fields, field_info, outcome)
    /\ previous' = LookupRecord(all_fields[processed + 1], dom, strategies,
                                probed, element, lookup_raised)
    /\ processed' = processed + 1
    /\ pc' = "loop"
    /\ UNCHANGED << driver, all_fields, strategies, position, probed, element,
                    lookup_raised, result >>
    /\ UNCHANGED << field_data, outside_fill >>

\* after the loop: final screenshot, success rate, status, return; quit
Finish ==
    /\ pc = "loop"
    /\ processed = Len(all_fields)
    /\ result' = FillingResult(filled_fields, failed_fields,
                               "screenshots/filled_form.png", Len(all_fields))
    /\ \E quit \in QuitOutcomes : driver' = quit
    /\ pc' = "done"
    /\ UNCHANGED << dom, all_fields, processed, strategies, position, probed,
                    element, lookup_raised, faults, filled_fields, failed_fields >>
    /\ UNCHANGED << previous, field_data, outside_fill >>

\* after the loop the final screenshot raises: the inner except block returns
FinishFails ==
    /\ pc = "loop"
    /\ processed = Len(all_fields)
    /\ \E shot \in ErrorScreenshots :
          result' = ErrorResult("WebDriverException", filled_fields, failed_fields,
                                shot, Len(all_fields))
    /\ \E quit \in QuitOutcomes : driver' = quit
    /\ pc' = "done"
    /\ UNCHANGED << dom, all_fields, processed, strategies, position, probed,
                    element, lookup_raised, faults, filled_fields, failed_fields >>
    /\ UNCHANGED << previous, field_data, outside_fill >>

\* no exception
NoException == [type |-> ""]

\* the function has not returned
NoExtraction == [extraction_status |-> "none"]

\* the function is not at a return or raise statement
NothingPending == [kind |-> "none"]

\* no call of the extraction has been made
ExtractInit ==
    /\ extract_pc = "idle"
    /\ called_as = ""
    /\ raise_on_error = FALSE
    /\ extract_url = ""
    /\ extract_driver = "none"
    /\ extract_error = NoException
    /\ extract_pending = NothingPending
    /\ extract_result = NoExtraction
    /\ extract_raised = NoException

\* the pipeline has not been called
NoRun == [raised |-> ""]

ChainInit ==
    /\ chain_pc = "idle"
    /\ fake_llm = [responses |-> << >>, i |-> 0]
    /\ chain_values = << >>
    /\ chain_index = 1
    /\ llm_prompts = << >>
    /\ chain_result = NoRun

\* _fill_field has not been called
StarterInit ==
    /\ starter_pc = "idle"
    /\ starter_dom = << >>
    /\ starter_field = << >>
    /\ starter_profile = << >>
    /\ starter_position = 1
    /\ starter_element = None
    /\ starter_interaction = "none"
    /\ starter_returned = ""

\* no question has been asked
RagInit ==
    /\ rag_pc = "idle"
    /\ query = ""
    /\ top_k = 2
    /\ scored_docs = << >>
    /\ relevant_docs = << >>
    /\ context = ""

\* every program of the repository before its first step
Init ==
    /\ FillInit
    /\ ExtractInit
    /\ ChainInit
    /\ StarterInit
    /\ RagInit
    /\ value_pc = "idle"
    /\ value_field_name = ""
    /\ value_mapping = << >>
    /\ value_key = 1
    /\ value_to_fill = ""
    /\ value_error = ""
    /\ locators_pc = "idle"
    /\ locators_url = ""
    /\ locators_driver = "none"
    /\ assigned = {}
    /\ invocations = << >>
    /\ locators_error = NoException
    /\ locators_pending = NoExtraction
    /\ locators_result = NoExtraction
    /\ script_pc = "idle"
    /\ test_url = ""
    /\ extraction_status = ""
    /\ extraction_result = << >>
    /\ filling_result = << >>
    /\ steps = << >>
    /\ script_raised = ""
    /\ exit_code = -1

Next ==
    \/ Reject
    \/ StartFails
    \/ Start
    \/ BeginField
    \/ Probe
    \/ FillField
    \/ Finish
    \/ FinishFails

Spec == Init /\ [][Next]_vars

(***************************************************************************)
(* Properties of the locator resolution                                    *)
(***************************************************************************)
\* a lookup is running (pc = "probe") or has just returned (pc = "fill")
InLookup == pc \in {"probe", "fill"}

\* the field the loop is at
CurrentField == all_fields[processed + 1]

\* what probing the i-th candidate of the running lookup gives on the page
Probing(i) ==
    Locate(dom, NormaliseLocatorType(strategies[i].by), strategies[i].value)

\* the declared locator of the current field resolves to an element
DeclaredResolves ==
    Locate(dom, NormaliseLocatorType(CurrentField.locator_type),
           CurrentField.locator_value).kind = "found"

\* C1: when the declared locator of a field resolves to an element of the
\* page, the lookup probes the declared locator only, never a fallback
\* candidate, and returns the element the declared locator resolves to.
C1_DeclaredLocatorWins ==
    (InLookup /\ DeclaredResolves) =>
        /\ \A i \in 1..Len(probed) : strategies[probed[i]] =
               Strategy(CurrentField.locator_type, CurrentField.locator_value)
        /\ Len(probed) <= 1
        /\ pc = "fill" =>
              /\ Len(probed) = 1
              /\ lookup_raised = ""
              /\ element = Locate(dom, NormaliseLocatorType(CurrentField.locator_type),
                                  CurrentField.locator_value).element

\* a lookup returned the element of a declared locator although the list
\* held fallback candidates that match an element as well
C1_Witness ==
    /\ pc = "fill"
    /\ DeclaredResolves
    /\ element # None
    /\ \E i \in 2..Len(strategies) : Probing(i).kind = "found"

\* C2: the candidate list is the declared locator, by-name with underscores,
\* by-name with hyphens, by-id with underscores, by-id with hyphens, then
\* the XPath probes of the category; the candidates are probed in list
\* order, each only after every earlier one has failed.
C2_FixedPriorityOrder ==
    InLookup =>
        LET name == CurrentField.field_name
            underscored(v) ==
                /\ Len(v) = Len(name)
                /\ \A c \in 1..Len(name) :
                      CharAt(v, c) = IF CharAt(name, c) = " " THEN "_"
                                     ELSE LowerChar(CharAt(name, c))
            hyphenated(v) ==
                /\ Len(v) = Len(name)
                /\ \A c \in 1..Len(name) :
                      CharAt(v, c) = IF CharAt(name, c) = " " THEN "-"
                                     ELSE LowerChar(CharAt(name, c))
        IN  /\ Len(strategies) >= 5
            /\ strategies[1].by = CurrentField.locator_type
            /\ strategies[1].value = CurrentField.locator_value
            /\ strategies[2].by = "name" /\ underscored(strategies[2].value)
            /\ strategies[3].by = "name" /\ hyphenated(strategies[3].value)
            /\ strategies[4].by = "id" /\ underscored(strategies[4].value)
            /\ strategies[5].by = "id" /\ hyphenated(strategies[5].value)
            /\ \A i \in 6..Len(strategies) : strategies[i].by = "xpath"
            /\ \A i \in 1..Len(probed) :
                  /\ probed[i] = i
                  /\ \A j \in 1..(i - 1) : Probing(j).kind # "found"

\* a lookup went through the whole list of a field with category probes
C2_Witness ==
    /\ pc = "fill"
    /\ Len(strategies) = 7
    /\ Len(probed) = 7
    /\ \E c \in 1..Len(CurrentField.field_name) : CharAt(CurrentField.field_name, c) = " "

\* C3: the lookup stops at the first candidate that matches: nothing is
\* probed after a success, no candidate is probed twice, and the element
\* returned is the one found by the earliest matching candidate of the list.
C3_FirstMatchReturned ==
    InLookup =>
        /\ \A i, j \in 1..Len(probed) : i # j => probed[i] # probed[j]
        /\ pc = "probe" => element = None
        /\ (pc = "fill" /\ element # None) =>
              LET hit == probed[Len(probed)]
              IN  /\ Probing(hit).kind = "found"
                  /\ Probing(hit).element = element
                  /\ \A j \in 1..Len(strategies) :
                        Probing(j).kind = "found" => j >= hit
                  /\ \A i \in 1..Len(probed) : probed[i] <= hit

\* a lookup returned the element of a fallback candidate while a later
\* candidate matches another element
C3_Witness ==
    /\ pc = "fill"
    /\ element # None
    /\ Len(probed) > 1
    /\ \E j \in 1..Len(strategies) :
          /\ j > probed[Len(probed)]
          /\ Probing(j).kind = "found"
          /\ Probing(j).element # element

\* the name of the current field contains "email", whatever the case
EmailField == contains(lower(CurrentField.field_name), "email")

\* C4 (as claimed): for every field whose name contains "email", a lookup
\* that finds nothing has probed //input[@type='email'] before it returns.
C4_EmailProbed ==
    (pc = "fill" /\ EmailField /\ element = None /\ lookup_raised = "") =>
        \E i \in 1..Len(probed) :
            strategies[probed[i]] = Strategy(By_XPATH, XPathTypeEmail)

\* C5: the lookup lets no exception escape: when every candidate fails, by
\* timeout or by any other exception, it returns None.
C5_NotFoundIsNone ==
    /\ lookup_raised = ""
    /\ (pc = "fill" /\ \A j \in 1..Len(strategies) : Probing(j).kind # "found") =>
          /\ element = None
          /\ Len(probed) = Len(strategies)

\* a lookup returned None after a candidate was rejected by the driver and
\* another timed out
C5_Witness ==
    /\ pc = "fill"
    /\ element = None
    /\ \E j \in 1..Len(strategies) : Probing(j).kind = "InvalidArgumentException"
    /\ \E j \in 1..Len(strategies) : Probing(j).kind = "TimeoutException"

(***************************************************************************)
(* Properties of the fill pass                                             *)
(***************************************************************************)
\* C6: when the lookup of a field returns not-found, the step that
\* finishes the field appends exactly one entry with the field's name and
\* the not-found reason to failed_fields, leaves filled_fields and the page
\* as they are, and hands over to the next field of the list.
C6_NotFoundRecorded ==
    [][(pc = "fill" /\ lookup_raised = "" /\ element = None) =>
          /\ failed_fields' = Append(failed_fields,
                                     [field_name |-> CurrentField.field_name,
                                      error |-> NotFoundError])
          /\ filled_fields' = filled_fields
          /\ dom' = dom
          /\ all_fields' = all_fields
          /\ processed' = processed + 1
          /\ pc' = "loop"]_vars

\* a field was recorded as not found on a page that has elements, and the
\* list holds a further field
C6_Witness ==
    /\ pc = "loop"
    /\ processed >= 1
    /\ processed < Len(all_fields)
    /\ Len(dom) > 0
    /\ element = None
    /\ failed_fields # << >>
    /\ failed_fields[Len(failed_fields)] =
           [field_name |-> all_fields[processed].field_name, error |-> NotFoundError]

\* C7 (as claimed): whenever the interaction with a found element raises a
\* fault, the field is appended to failed_fields with the raised message and
\* filled_fields is left as it is, whatever the field type.
C7_FaultRecorded ==
    [][(pc = "fill" /\ faults' # << >>) =>
          /\ \E i \in 1..Len(faults') :
                failed_fields' = Append(failed_fields,
                                        [field_name |-> CurrentField.field_name,
                                         error |-> faults'[i]])
          /\ filled_fields' = filled_fields]_vars

\* the status the claim assigns to (filled count, total count)
ClaimedStatus(filled, total_fields) ==
    IF filled = 0 THEN "error"
    ELSE IF filled < total_fields THEN "partial"
    ELSE "success"

\* C8 (as claimed): the status returned is "error" when no field was filled,
\* the empty field list included, "partial" when some but not all were,
\* "success" when all were, on every path that returns.
C8_StatusFromCounts ==
    pc = "done" =>
        result.filling_status =
            ClaimedStatus(Len(result.filled_fields), result.total_fields)

Count(seq, v) == Cardinality({i \in 1..Len(seq) : seq[i] = v})

\* C10: each processed field has exactly one outcome: at every point of the
\* loop the entries of filled_fields and failed_fields together are the
\* names of the fields processed so far, each as often as the list holds it,
\* and after the loop their number is total_fields.
C10_OneOutcomePerField ==
    /\ Len(filled_fields) + Len(failed_fields) = processed
    /\ \A f \in FieldPool :
          Count(filled_fields, f.field_name)
          + Count([i \in 1..Len(failed_fields) |-> failed_fields[i].field_name],
                  f.field_name)
          = Count([i \in 1..processed |-> all_fields[i].field_name], f.field_name)
    /\ (pc = "done" /\ processed = Len(all_fields)) =>
          Len(result.filled_fields) + Len(result.failed_fields) = result.total_fields

\* a pass over three fields with different names ended with fields of both
\* outcomes
C10_Witness ==
    /\ pc = "done"
    /\ result.total_fields = 3
    /\ Len(result.filled_fields) >= 1
    /\ Len(result.failed_fields) >= 1
    /\ \A i, j \in 1..3 : i # j => all_fields[i].field_name # all_fields[j].field_name

\* the names of the first n fields of the list
Names(fields, n) == [i \in 1..n |-> fields[i].field_name]

\* sub is seq with some of its entries left out
RECURSIVE IsSubsequence(_, _)
IsSubsequence(sub, seq) ==
    IF Len(sub) = 0 THEN TRUE
    ELSE IF Len(seq) = 0 THEN FALSE
    ELSE IF Head(sub) = Head(seq) THEN IsSubsequence(Tail(sub), Tail(seq))
    ELSE IsSubsequence(sub, Tail(seq))

\* C11: the fields are processed one at a time in declaration order, the
\* required fields before the optional ones: while the lookup or the
\* interaction of a field runs every earlier field has its outcome and no
\* later field has one, and the names in filled_fields and in failed_fields
\* stand in the order of the input list.
C11_DeclarationOrder ==
    /\ \A i, j \in 1..Len(all_fields) :
          (i < j /\ all_fields[j].is_required) => all_fields[i].is_required
    /\ InLookup => Len(filled_fields) + Len(failed_fields) = processed
    /\ IsSubsequence(filled_fields, Names(all_fields, processed))
    /\ IsSubsequence(Names(failed_fields, Len(failed_fields)),
                     Names(all_fields, processed))

\* a pass of a required and two optional fields filled two fields of
\* different names and failed on the one between them
C11_Witness ==
    /\ pc = "done"
    /\ Len(all_fields) = 3
    /\ all_fields[1].is_required /\ ~all_fields[2].is_required
    /\ filled_fields = << all_fields[1].field_name, all_fields[3].field_name >>
    /\ all_fields[1].field_name # all_fields[3].field_name
    /\ Len(failed_fields) = 1

\* C12: the lookup is read-only. A step of the lookup leaves the page, the
\* field descriptors, filled_fields and failed_fields as they were; after the
\* page is loaded, an element of the page changes only in the caller's
\* interaction step, after the lookup has returned that element, and no other
\* element changes with it.
C12_LookupReadOnly ==
    [][/\ pc = "probe" =>
            /\ dom' = dom
            /\ all_fields' = all_fields
            /\ filled_fields' = filled_fields
            /\ failed_fields' = failed_fields
       /\ (pc # "idle" /\ dom' # dom) =>
            /\ pc = "fill"
            /\ element # None
            /\ \A e \in DOMAIN dom : e # element => dom'[e] = dom[e]]_vars

\* a lookup returned an element of a page on which an earlier field had
\* typed a value
C12_Witness ==
    /\ pc = "fill"
    /\ element # None
    /\ processed >= 1
    /\ dom[element].value # ""

\* C13: the lookup keeps no state between calls: when the lookup of a field
\* has returned and the lookup before it was given the same descriptor and
\* the same page, both probed the same candidates in the same order and
\* returned the same outcome.
C13_LookupIdempotent ==
    (/\ pc = "fill"
     /\ previous.called
     /\ previous.field = CurrentField
     /\ previous.dom = dom)
    => /\ previous.strategies = strategies
       /\ previous.probed = probed
       /\ previous.element = element
       /\ previous.raised = lookup_raised

\* the same descriptor was looked up twice on an unchanged page and the
\* lookup found its element after candidates that matched nothing
C13_Witness ==
    /\ pc = "fill"
    /\ previous.called
    /\ previous.field = CurrentField
    /\ previous.dom = dom
    /\ Len(probed) > 1
    /\ element # None

\* the page has an <input type="email">
HasEmailInput ==
    \E e \in DOMAIN dom : dom[e].tag = "input" /\ dom[e].type = "email"

\* no element of the page is named or identified email_address / email-address
NoEmailAddressElement ==
    \A e \in DOMAIN dom :
        /\ dom[e].name \notin {"email_address", "email-address"}
        /\ dom[e].id \notin {"email_address", "email-address"}

\* C14: when the first field of a pass is "Email Address" of kind email
\* without a declared locator, and the page has an <input type="email"> and
\* no element named or identified email_address / email-address, the lookup
\* of the field returns an element from the type=email XPath probe and the
\* field is not recorded as failed.
C14_EmailWithoutLocatorResolved ==
    (/\ processed = 1
     /\ all_fields[1].field_name = "Email Address"
     /\ all_fields[1].field_type = "email"
     /\ "locator_type" \notin DOMAIN all_fields[1]
     /\ HasEmailInput
     /\ NoEmailAddressElement)
    => /\ previous.called
       /\ previous.element # None
       /\ previous.strategies[previous.probed[Len(previous.probed)]]
              = Strategy(By_XPATH, XPathTypeEmail)
       /\ failed_fields = << >>

\* C15: when a pass whose only field is "Favorite Color" of kind text has
\* returned after its lookup ran on a page where no candidate matches an
\* element, the lookup returned None, the field is the one entry of
\* failed_fields, with the not-found error, and filling_status is "error".
C15_FavoriteColorNotFound ==
    (/\ pc = "done"
     /\ Len(all_fields) = 1
     /\ all_fields[1].field_name = "Favorite Color"
     /\ all_fields[1].field_type = "text"
     /\ previous.called
     /\ \A i \in DOMAIN previous.strategies :
           Locate(previous.dom, NormaliseLocatorType(previous.strategies[i].by),
                  previous.strategies[i].value).kind # "found")
    => /\ previous.element = None
       /\ previous.raised = ""
       /\ filled_fields = << >>
       /\ failed_fields = << Failed(all_fields[1], NotFoundError) >>
       /\ result.filling_status = "error"
       /\ result.failed_fields = failed_fields

\* the single-field pass over "Favorite Color" returned normally from a page
\* with elements, none of which a candidate matches
C15_Witness ==
    /\ pc = "done"
    /\ all_fields = << FieldColor >>
    /\ Len(dom) > 0
    /\ previous.called /\ previous.element = None
    /\ Len(previous.probed) = Len(previous.strategies)
    /\ "error_message" \notin DOMAIN result
    /\ result.filling_status = "error"

\* C16: the browser session belongs to the pass: a session is created only
\* when there is none and none has been quit, a lookup or an interaction
\* runs only on the open session, the session is quit only once and only
\* while open, a pass that returns leaves no session open, and the page is
\* not touched once the session was quit.
C16_SessionOwned ==
    [][/\ driver' # driver =>
            \/ driver = "none"
            \/ driver = "open" /\ driver' \in {"quit", "quit failed"}
       /\ pc \in {"probe", "fill"} => driver = "open"
       /\ pc' \in {"loop", "probe", "fill"} => driver' = "open"
       /\ dom' # dom => driver' = "open"
       /\ pc' = "done" => driver' # "open"]_vars

\* a pass with a filled and a failed field has returned and its session was
\* quit; so has a pass that an exception aborted after the loop
C16_Witness ==
    /\ pc = "done"
    /\ driver \in {"quit", "quit failed"}
    /\ Len(filled_fields) > 0
    /\ Len(failed_fields) > 0
    /\ "error_message" \in DOMAIN result

(***************************************************************************)
(* src/toolCallingJobApplication.py: _extract_job_application_info_core    *)
(* and the tool extract_required_job_application_information around it     *)
(***************************************************************************)
Exception(type, message) == [type |-> type, message |-> message]

\* traceback.format_exc() inside the except block
Traceback(e) == "Traceback (most recent call last): " \o e.type \o ": " \o e.message

\* the urls a call is given
Urls ==
    {"https://jobs.ashbyhq.com/wander/121c24e0-eeff-49a8-ac56-793d2dbc9fcd/application",
     "not-a-url"}

\* the exceptions a statement of the try block can raise: "chrome" is
\* webdriver.Chrome(...), "get" is driver.get(url), "wait" the wait for the
\* body element, "source" driver.page_source, "llm" structured_llm.invoke
Failures(statement) ==
    CASE statement = "chrome" ->
           {Exception("SessionNotCreatedException", "session not created")}
      [] statement = "get" ->
           {Exception("InvalidArgumentException", "invalid argument"),
            Exception("WebDriverException", "unknown error: net::ERR_NAME_NOT_RESOLVED")}
      [] statement = "wait" -> {Exception("TimeoutException", "")}
      [] statement = "source" -> {Exception("WebDriverException", "disconnected")}
      [] statement = "llm" ->
           {Exception("APIConnectionError", "Connection error."),
            Exception("ValidationError", "1 validation error for JobApplicationFields")}

\* JobApplicationFields objects the model call can return
LlmAnswers ==
    {[job_title |-> "Software Engineer", company_name |-> "Wander",
      required_fields |-> << "Name", "Email" >>, optional_fields |-> << "Phone" >>,
      file_uploads |-> << "Resume" >>, questions |-> << >>],
     [job_title |-> "", company_name |-> "",
      required_fields |-> << >>, optional_fields |-> << >>,
      file_uploads |-> << >>, questions |-> << >>]}

\* the dictionary of the return statement at the end of the try block
ExtractionSuccess(answer, url) ==
    [job_title |-> answer.job_title,
     company_name |-> answer.company_name,
     required_fields |-> answer.required_fields,
     optional_fields |-> answer.optional_fields,
     file_uploads |-> answer.file_uploads,
     questions |-> answer.questions,
     url |-> url,
     extraction_status |-> "success"]

\* the dictionary of the return statement of the except block
ExtractionError(e, url) ==
    [extraction_status |-> "error",
     error_type |-> e.type,
     error_message |-> e.message,
     full_traceback |-> Traceback(e),
     url |-> url,
     required_fields |-> << >>,
     optional_fields |-> << >>,
     file_uploads |-> << >>,
     questions |-> << >>,
     job_title |-> "Could not extract",
     company_name |-> "Could not extract"]

\* raise Exception(f"Failed to extract ... {type(e).__name__}: {str(e)} ...") from e
Reraised(e, url) ==
    Exception("Exception",
              "Failed to extract job application info from " \o url \o ". Error: "
              \o e.type \o ": " \o e.message \o "\nFull traceback:\n" \o Traceback(e))

\* mutant: the except block raises whatever raise_on_error is
HandledAlwaysRaises(flag, e, url) == [kind |-> "raise", value |-> Reraised(e, url)]

\* the except block: raise when raise_on_error, else return the error dictionary
Handled(flag, e, url) ==
    IF flag THEN [kind |-> "raise", value |-> Reraised(e, url)]
    ELSE [kind |-> "return", value |-> ExtractionError(e, url)]

\* the finally block: driver.quit() if a driver was created; a failure of
\* quit is logged and dropped
AfterQuit(session, quit) == IF session = "open" THEN quit ELSE session

\* an exception e inside the try block: control goes to the except block
Raises(e) ==
    /\ extract_error' = e
    /\ extract_pc' = "except"

\* a call: the tool passes raise_on_error=False, a direct caller chooses
ExtractCall ==
    /\ extract_pc = "idle"
    /\ \E entry \in {"tool", "core"}, flag \in BOOLEAN, url \in Urls :
          /\ entry = "tool" => flag = FALSE
          /\ called_as' = entry
          /\ raise_on_error' = flag
          /\ extract_url' = url
    /\ extract_pc' = "chrome"
    /\ UNCHANGED << extract_driver, extract_error, extract_pending,
                    extract_result, extract_raised, outside_extract >>

\* driver = webdriver.Chrome(options=chrome_options)
StartChrome ==
    /\ extract_pc = "chrome"
    /\ \/ /\ extract_driver' = "open"
          /\ extract_pc' = "get"
          /\ UNCHANGED extract_error
       \/ /\ \E e \in Failures("chrome") : Raises(e)
          /\ UNCHANGED extract_driver
    /\ UNCHANGED << called_as, raise_on_error, extract_url, extract_pending,
                    extract_result, extract_raised, outside_extract >>

\* driver.get(url)
Navigate ==
    /\ extract_pc = "get"
    /\ \/ /\ extract_pc' = "wait"
          /\ UNCHANGED extract_error
       \/ \E e \in Failures("get") : Raises(e)
    /\ UNCHANGED << called_as, raise_on_error, extract_url, extract_driver,
                    extract_pending, extract_result, extract_raised,
                    outside_extract >>

\* WebDriverWait(driver, 10).until(presence of body); time.sleep(3)
WaitForBody ==
    /\ extract_pc = "wait"
    /\ \/ /\ extract_pc' = "source"
          /\ UNCHANGED extract_error
       \/ \E e \in Failures("wait") : Raises(e)
    /\ UNCHANGED << called_as, raise_on_error, extract_url, extract_driver,
                    extract_pending, extract_result, extract_raised,
                    outside_extract >>

\* html_content = driver.page_source
ReadPageSource ==
    /\ extract_pc = "source"
    /\ \/ /\ extract_pc' = "llm"
          /\ UNCHANGED extract_error
       \/ \E e \in Failures("source") : Raises(e)
    /\ UNCHANGED << called_as, raise_on_error, extract_url, extract_driver,
                    extract_pending, extract_result, extract_raised,
                    outside_extract >>

\* result = structured_llm.invoke(prompt); return {...}
AskModel ==
    /\ extract_pc = "llm"
    /\ \/ \E answer \in LlmAnswers :
             /\ extract_pending' =
                    [kind |-> "return",
                     value |-> ExtractionSuccess(answer, extract_url)]
             /\ extract_pc' = "finally"
             /\ UNCHANGED extract_error
       \/ /\ \E e \in Failures("llm") : Raises(e)
          /\ UNCHANGED extract_pending
    /\ UNCHANGED << called_as, raise_on_error, extract_url, extract_driver,
                    extract_result, extract_raised, outside_extract >>

\* except Exception as e: raise or return
Except ==
    /\ extract_pc = "except"
    /\ extract_pending' = Handled(raise_on_error, extract_error, extract_url)
    /\ extract_pc' = "finally"
    /\ UNCHANGED << called_as, raise_on_error, extract_url, extract_driver,
                    extract_error, extract_result, extract_raised,
                    outside_extract >>

\* finally: quit the driver; then the pending return or raise takes effect
Finally ==
    /\ extract_pc = "finally"
    /\ \E quit \in QuitOutcomes : extract_driver' = AfterQuit(extract_driver, quit)
    /\ IF extract_pending.kind = "return"
       THEN /\ extract_result' = extract_pending.value
            /\ UNCHANGED extract_raised
       ELSE /\ extract_raised' = extract_pending.value
            /\ UNCHANGED extract_result
    /\ extract_pc' = "done"
    /\ UNCHANGED << called_as, raise_on_error, extract_url, extract_error,
                    extract_pending, outside_extract >>

ExtractNext ==
    \/ ExtractCall
    \/ StartChrome
    \/ Navigate
    \/ WaitForBody
    \/ ReadPageSource
    \/ AskModel
    \/ Except
    \/ Finally

SpecExtract == Init /\ [][ExtractNext]_vars

\* C17: the tool never raises, and the core raises only when called with
\* raise_on_error=True: a call that a failure of the browser, of the page
\* load or of the model call interrupts, and that is not asked to raise,
\* returns a dictionary with extraction_status "error", the type and the
\* message of the exception, and empty required_fields, optional_fields,
\* file_uploads and questions. When the result is returned or the exception
\* leaves, no session is open: if one was created, quit has been called.
C17_ToolNeverRaises ==
    /\ extract_raised # NoException => called_as = "core" /\ raise_on_error
    /\ (extract_pc = "done" /\ called_as = "tool") => extract_result # NoExtraction
    /\ (extract_pc = "done" /\ extract_error # NoException /\ ~raise_on_error) =>
          /\ extract_raised = NoException
          /\ extract_result.extraction_status = "error"
          /\ extract_result.error_type = extract_error.type
          /\ extract_result.error_message = extract_error.message
          /\ extract_result.required_fields = << >>
          /\ extract_result.optional_fields = << >>
          /\ extract_result.file_uploads = << >>
          /\ extract_result.questions = << >>
    /\ (extract_result # NoExtraction \/ extract_raised # NoException) =>
          extract_driver # "open"
    /\ extract_pc = "done" =>
          (extract_driver = "none") = (extract_error \in Failures("chrome"))

\* the tool returned after the model call failed on an open session
C17_Witness ==
    /\ extract_pc = "done"
    /\ called_as = "tool"
    /\ extract_error \in Failures("llm")
    /\ extract_driver \in {"quit", "quit failed"}
    /\ extract_result.extraction_status = "error"

(***************************************************************************)
(* src/chain_07_testing_chains.py: a SequentialChain of two LLMChains run  *)
(* on a FakeListLLM. In the response texts "*" stands for the bullet       *)
(* character of the source.                                                *)
(***************************************************************************)
\* mutant: the outline chain is declared first
ChainsReversed ==
    << [input |-> "title", before |-> "Create a 5-bullet outline for '",
        after |-> "'.", output_key |-> "outline"],
       [input |-> "idea", before |-> "Give me a punchy blog-post title about ",
        after |-> ".", output_key |-> "title"] >>

\* chains=[title_chain, outline_chain]: each LLMChain with the variable of
\* its prompt template, the text around it, and its output_key
Chains ==
    << [input |-> "idea", before |-> "Give me a punchy blog-post title about ",
        after |-> ".", output_key |-> "title"],
       [input |-> "title", before |-> "Create a 5-bullet outline for '",
        after |-> "'.", output_key |-> "outline"] >>

\* PromptTemplate.format: the value of the variable put in the template
Format(chain, values) == chain.before \o values[chain.input] \o chain.after

\* the ideas and the canned responses of the test and of test_scenarios,
\* in lists of two to MaxResponses responses
test_scenarios ==
    LET ideas == {"AI-powered pizza ovens", "blockchain coffee", "quantum computing"}
        canned ==
          {"Amazing AI-Powered Pizza Ovens: The Future of Food!",
           "Here's a 5-bullet outline:\n* Introduction to AI-powered pizza ovens\n* How machine learning optimizes cooking temperature\n* Computer vision for perfect crust detection\n* Automated ingredient dispensing systems\n* Future implications for the food industry",
           "Blockchain Coffee Revolution!",
           "* Decentralized brewing\n* Smart contracts for beans",
           "Quantum Computing Explained!",
           "* Quantum bits and superposition\n* Real-world applications"}
    IN  {[input |-> [idea |-> idea], fake_responses |-> responses] :
            idea \in ideas,
            responses \in UNION {[1..n -> canned] : n \in 2..MaxResponses}}

\* FakeListLLM: a call returns responses[i] and moves i on, back to 0 after
\* the last response
Respond(llm) ==
    [response |-> llm.responses[llm.i + 1],
     llm |-> [llm EXCEPT !.i = IF llm.i < Len(llm.responses) - 1
                               THEN llm.i + 1 ELSE 0]]

\* a FakeListLLM is made of the scenario's responses and the pipeline is
\* called with the scenario's input
ChainCall ==
    /\ chain_pc = "idle"
    /\ \E scenario \in test_scenarios :
          /\ fake_llm' = [responses |-> scenario.fake_responses, i |-> 0]
          /\ chain_values' = scenario.input
    /\ chain_index' = 1
    /\ chain_pc' = "running"
    /\ UNCHANGED << llm_prompts, chain_result, outside_chain >>

\* the next chain of the pipeline: its prompt is formatted from the values
\* known so far, the model is called, the response is stored under the
\* chain's output_key; a chain whose input is not known yet is an error
RunChain ==
    /\ chain_pc = "running"
    /\ chain_index <= Len(Chains)
    /\ LET chain == Chains[chain_index]
       IN  IF chain.input \in DOMAIN chain_values
           THEN LET answer == Respond(fake_llm)
                IN  /\ llm_prompts' = Append(llm_prompts, Format(chain, chain_values))
                    /\ fake_llm' = answer.llm
                    /\ chain_values' =
                          [key \in DOMAIN chain_values \cup {chain.output_key} |->
                              IF key = chain.output_key THEN answer.response
                              ELSE chain_values[key]]
                    /\ chain_index' = chain_index + 1
                    /\ UNCHANGED << chain_pc, chain_result >>
           ELSE /\ chain_result' = [raised |-> "ValueError"]
                /\ chain_pc' = "done"
                /\ UNCHANGED << llm_prompts, fake_llm, chain_values, chain_index >>
    /\ UNCHANGED outside_chain

\* after the last chain: the inputs and the output_variables are returned
ChainReturn ==
    /\ chain_pc = "running"
    /\ chain_index > Len(Chains)
    /\ chain_result' = chain_values
    /\ chain_pc' = "done"
    /\ UNCHANGED << fake_llm, chain_values, chain_index, llm_prompts,
                    outside_chain >>

ChainNext ==
    \/ ChainCall
    \/ RunChain
    \/ ChainReturn

SpecChain == Init /\ [][ChainNext]_vars

\* C18: the pipeline runs the title chain, then the outline chain, and the
\* fake model's responses are consumed in order: the model is never asked
\* for an outline before a title is known, and when the pipeline has
\* returned the model was called twice, first with the title prompt about
\* the idea and then with the outline prompt about the title it answered;
\* the result has both keys, "title" with the first canned response and
\* "outline" with the second.
C18_PipelineInOrder ==
    /\ Len(llm_prompts) = chain_index - 1
    /\ "outline" \in DOMAIN chain_values => "title" \in DOMAIN chain_values
    /\ chain_pc = "done" =>
          /\ {"title", "outline"} \subseteq DOMAIN chain_result
          /\ chain_result.title = fake_llm.responses[1]
          /\ chain_result.outline = fake_llm.responses[2]
          /\ llm_prompts =
                << "Give me a punchy blog-post title about "
                       \o chain_result.idea \o ".",
                   "Create a 5-bullet outline for '"
                       \o fake_llm.responses[1] \o "'." >>

\* the test of the file has run: the idea and the two responses of lines
\* 13-21 and 46, and the title the test asserts
C18_Witness ==
    /\ chain_pc = "done"
    /\ chain_result.idea = "AI-powered pizza ovens"
    /\ Len(fake_llm.responses) = 2
    /\ chain_result.title = "Amazing AI-Powered Pizza Ovens: The Future of Food!"
    /\ contains(chain_result.outline, "AI-powered pizza ovens")
    /\ contains(chain_result.outline, "bullet")

(***************************************************************************)
(* src/starter_code/form_filling_tool.py: _fill_field                      *)
(***************************************************************************)
\* a form whose elements carry the field names of _get_profile_value
StarterPage ==
    << Element("input", "text", "", "first_name", "", "", TRUE, << >>),
       Element("input", "email", "email", "", "", "", TRUE, << >>),
       Element("input", "tel", "", "", "phone", "", FALSE, << >>),
       Element("input", "file", "", "resume", "", "", TRUE, << >>),
       Element("textarea", "", "cover_letter", "", "", "", TRUE, << >>),
       Element("select", "", "last_name", "", "", "", TRUE,
               << Option("Doe", "doe"), Option("Smith", "smith") >>) >>

\* the profiles a call is given: a full one and an empty one
StarterProfiles ==
    {[first_name |-> "John", last_name |-> "Doe",
      email |-> "john.doe@example.com", phone |-> "+1-555-123-4567",
      resume_path |-> "/path/to/resume.pdf",
      cover_letter |-> "I am excited to apply for this position..."],
     [first_name |-> ""]}

\* the fields a call is given
StarterFields ==
    [field_name : {"first_name", "last_name", "email", "phone", "resume",
                   "cover_letter", "country"},
     field_type : {"text", "email", "tel", "textarea", "file", "select",
                   "checkbox", "radio"}]

\* number of entries of the locators list
StarterLocators == 5

\* the browser's evaluation of an entry of locators, by its index: By.NAME,
\* By.ID, input[name='...'], #..., //input[@placeholder='...']
StarterMatches(el, entry, field_name) ==
    CASE entry = 1 -> el.name = field_name
      [] entry = 2 -> el.id = field_name
      [] entry = 3 -> el.tag = "input" /\ el.name = field_name
      [] entry = 4 -> el.id = field_name
      [] entry = 5 -> el.tag = "input" /\ el.placeholder = field_name

\* profile.get(key, "")
ProfileGet(profile, key) == IF key \in DOMAIN profile THEN profile[key] ELSE ""

\* _get_profile_value: field_mapping.get(field_name, "")
get_profile_value(field_name, profile) ==
    CASE field_name = "first_name"   -> ProfileGet(profile, "first_name")
      [] field_name = "last_name"    -> ProfileGet(profile, "last_name")
      [] field_name = "email"        -> ProfileGet(profile, "email")
      [] field_name = "phone"        -> ProfileGet(profile, "phone")
      [] field_name = "resume"       -> ProfileGet(profile, "resume_path")
      [] field_name = "cover_letter" -> ProfileGet(profile, "cover_letter")
      [] OTHER -> ""

\* the branches over field_type on the located element: what was done to
\* the page, which interaction ran, and whether one of the calls raised
StarterInteract(page, located, field_type, profile_value) ==
    LET el == page[located]
        typed == [page EXCEPT ![located].value = profile_value]
        chosen == {i \in 1..Len(el.options) : el.options[i].text = profile_value}
        done(after, interaction, raised) ==
            [dom |-> after, interaction |-> interaction, raised |-> raised]
    IN  IF field_type \in {"text", "email", "tel", "textarea"}
        THEN IF Editable(el) /\ el.type # "file"
             THEN done(typed, "send_keys", FALSE)
             ELSE done(page, "none", TRUE)
        ELSE IF field_type = "file"
        THEN IF Editable(el)
             THEN done(typed, "send_keys", FALSE)
             ELSE done(page, "none", TRUE)
        ELSE IF field_type = "select"
        THEN IF el.tag = "select" /\ chosen # {}
             THEN done([page EXCEPT ![located].selected = FirstIndex(chosen)],
                       "select", FALSE)
             ELSE done(page, "none", TRUE)
        ELSE done(page, "none", FALSE)

\* _fill_field(driver, field, profile) is called on a loaded page
StarterCall ==
    /\ starter_pc = "idle"
    /\ \E page \in {StarterPage, PageAshby, PageEmpty}, field \in StarterFields,
          profile \in StarterProfiles :
          /\ starter_dom' = page
          /\ starter_field' = field
          /\ starter_profile' = profile
    /\ starter_position' = 1
    /\ starter_element' = None
    /\ starter_pc' = "locate"
    /\ UNCHANGED << starter_interaction, starter_returned, outside_starter >>

\* one turn of the loop over locators: break on the first element found,
\* continue on any exception
StarterProbe ==
    /\ starter_pc = "locate"
    /\ starter_position <= StarterLocators
    /\ LET hits == {i \in 1..Len(starter_dom) :
                       StarterMatches(starter_dom[i], starter_position,
                                      starter_field.field_name)}
       IN  IF hits # {}
           THEN /\ starter_element' = FirstIndex(hits)
                /\ starter_pc' = "fill"
                /\ UNCHANGED starter_position
           ELSE /\ starter_position' = starter_position + 1
                /\ starter_pc' = IF starter_position = StarterLocators
                                 THEN "fill" ELSE "locate"
                /\ UNCHANGED starter_element
    /\ UNCHANGED << starter_dom, starter_field, starter_profile,
                    starter_interaction, starter_returned, outside_starter >>

\* after the loop: no element or no profile value returns False; else the
\* branch of the field_type runs and True is returned, False if it raised
StarterFill ==
    /\ starter_pc = "fill"
    /\ LET profile_value == get_profile_value(starter_field.field_name,
                                              starter_profile)
       IN  IF starter_element = None \/ profile_value = ""
           THEN /\ starter_returned' = FALSE
                /\ UNCHANGED << starter_dom, starter_interaction >>
           ELSE LET did == StarterInteract(starter_dom, starter_element,
                                           starter_field.field_type,
                                           profile_value)
                IN  /\ starter_dom' = did.dom
                    /\ starter_interaction' = did.interaction
                    /\ starter_returned' = ~did.raised
    /\ starter_pc' = "done"
    /\ UNCHANGED << starter_field, starter_profile, starter_position,
                    starter_element, outside_starter >>

StarterNext ==
    \/ StarterCall
    \/ StarterProbe
    \/ StarterFill

SpecStarter == Init /\ [][StarterNext]_vars

\* C19: when _fill_field has returned it has returned True or False, and it
\* has returned True only if send_keys or a Select choice was performed on
\* the located element with the profile value, whatever the field_type.
C19_TrueOnlyIfFilled ==
    starter_pc = "done" =>
        /\ starter_returned \in BOOLEAN
        /\ starter_returned = TRUE =>
              /\ starter_interaction \in {"send_keys", "select"}
              /\ starter_element # None
              /\ \/ starter_dom[starter_element].value
                       = get_profile_value(starter_field.field_name, starter_profile)
                 \/ starter_dom[starter_element].selected # 0

(***************************************************************************)
(* src/chain_04_rag_chain_simple.py: simple_retrieval and the context      *)
(* ask_question builds from it                                             *)
(***************************************************************************)
knowledge_base ==
    << "LangChain is a framework for developing applications powered by language models.",
       "It provides tools for chaining together different components like LLMs, prompts, and data sources.",
       "The main benefits of LangChain include modularity, composability, and ease of use.",
       "Common use cases include chatbots, question-answering systems, and content generation.",
       "LangChain supports various memory types for maintaining conversation context.",
       "Agents in LangChain can use tools to interact with external systems.",
       "Prompt templates help standardize and reuse prompts across applications." >>

test_questions ==
    {"What is LangChain?",
     "What are the benefits of using LangChain?",
     "How can I use LangChain for chatbots?",
     "What is quantum computing?"}

\* further questions a caller may ask
OtherQuestions == {"quantum computing", "Which memory types are there?"}

\* set(text.lower().split())
Words(text) ==
    LET words == split(lower(text)) IN {words[i] : i \in 1..Len(words)}

\* len(query_words.intersection(doc_words))
Overlap(question, doc) == Cardinality(Words(question) \cap Words(doc))

\* scored_docs.sort(key=score, reverse=True), a stable sort, then
\* [doc for score, doc in scored_docs[:top_k] if score > 0]
TopScored(scored, k) ==
    LET before(i, j) == \/ scored[i].score > scored[j].score
                        \/ scored[i].score = scored[j].score /\ i < j
        sorted == [n \in 1..Len(scored) |->
                      scored[CHOOSE i \in 1..Len(scored) :
                                Cardinality({j \in 1..Len(scored) : before(j, i)})
                                    = n - 1]]
        top == SubSeq(sorted, 1, IF k < Len(sorted) THEN k ELSE Len(sorted))
        kept == SelectSeq(top, LAMBDA pair : pair.score > 0)
    IN  [n \in 1..Len(kept) |-> kept[n].doc]

NoContext == "No relevant information found in the knowledge base."

\* "\n".join(f"- {doc}" for doc in relevant_docs), or NoContext for no docs
RECURSIVE Context(_)
Context(docs) ==
    IF Len(docs) = 0 THEN NoContext
    ELSE IF Len(docs) = 1 THEN "- " \o docs[1]
    ELSE "- " \o docs[1] \o "\n" \o Context(Tail(docs))

\* ask_question(question) calls simple_retrieval(question, knowledge_base);
\* another caller chooses top_k
RagAsk ==
    /\ rag_pc = "idle"
    /\ \E question \in test_questions \cup OtherQuestions, k \in 1..MaxTopK :
          /\ query' = question
          /\ top_k' = k
    /\ scored_docs' = << >>
    /\ rag_pc' = "score"
    /\ UNCHANGED << relevant_docs, context, outside_rag >>

\* one turn of `for doc in documents`
ScoreDocument ==
    /\ rag_pc = "score"
    /\ Len(scored_docs) < Len(knowledge_base)
    /\ LET doc == knowledge_base[Len(scored_docs) + 1]
       IN  scored_docs' = Append(scored_docs,
                                 [score |-> Overlap(query, doc), doc |-> doc])
    /\ UNCHANGED << rag_pc, query, top_k, relevant_docs, context, outside_rag >>

\* after the loop: sort, cut, filter, return; ask_question builds the context
RagReturn ==
    /\ rag_pc = "score"
    /\ Len(scored_docs) = Len(knowledge_base)
    /\ relevant_docs' = TopScored(scored_docs, top_k)
    /\ context' = Context(TopScored(scored_docs, top_k))
    /\ rag_pc' = "done"
    /\ UNCHANGED << query, top_k, scored_docs, outside_rag >>

RagNext ==
    \/ RagAsk
    \/ ScoreDocument
    \/ RagReturn

SpecRag == Init /\ [][RagNext]_vars

\* C20: when the question "What is quantum computing?" has been asked,
\* simple_retrieval has returned the empty list and the context is the
\* no-relevant-information text; and every document simple_retrieval
\* returns shares a lowercased whitespace-separated word with the query.
C20_QuantumRetrievesNothing ==
    rag_pc = "done" =>
        /\ query = "What is quantum computing?" =>
              /\ relevant_docs = << >>
              /\ context = NoContext
        /\ \A n \in 1..Len(relevant_docs) :
              Words(query) \cap Words(relevant_docs[n]) # {}

(***************************************************************************)
(* The choice of value_to_fill (src/toolCalling3.py, lines 539-558).       *)
(***************************************************************************)
\* the loop reaches a field whose element was found
ValueCall ==
    /\ value_pc = "idle"
    /\ \E name \in {"First Name", "Email Address", "Your Name", "Surname",
                    "Postal Code", "Favorite Color", "Street Address",
                    "Why do you want to work here", "Phone"},
          profile \in {DUMMY_PROFILE,
                       [DUMMY_PROFILE EXCEPT !.email = ""],
                       [DUMMY_PROFILE EXCEPT !.first_name = ""],
                       [DUMMY_PROFILE EXCEPT !.zip_code = ""]} :
          /\ value_field_name' = lower(name)
          /\ value_mapping' = field_mapping(profile)
    /\ value_to_fill' = ""
    /\ value_key' = 1
    /\ value_pc' = "first"
    /\ UNCHANGED << value_error, fill_vars, extract_vars, chain_vars,
                    starter_vars, rag_vars,
                    locators_vars, script_vars >>

\* mutant: the first loop has no break, the last matching key wins
FirstPassKeepsGoing ==
    /\ value_pc = "first"
    /\ LET entry == value_mapping[value_key]
           hit   == contains(value_field_name, entry.key)
           taken == IF hit THEN entry.value ELSE value_to_fill
       IN  /\ value_to_fill' = taken
           /\ IF value_key = Len(value_mapping)
              THEN /\ value_pc' = IF taken = "" THEN "second" ELSE "done"
                   /\ value_key' = IF taken = "" THEN 1 ELSE value_key
              ELSE /\ value_pc' = value_pc
                   /\ value_key' = value_key + 1
    /\ UNCHANGED << value_field_name, value_mapping, value_error, fill_vars,
                    extract_vars, chain_vars, starter_vars, rag_vars,
                    locators_vars, script_vars >>

\* one turn of `for key, value in field_mapping.items(): if key in
\* field_name`; on the break or after the last key, `if not value_to_fill`
FirstPass ==
    /\ value_pc = "first"
    /\ LET entry == value_mapping[value_key]
           hit   == contains(value_field_name, entry.key)
           taken == IF hit THEN entry.value ELSE value_to_fill
       IN  /\ value_to_fill' = taken
           /\ IF hit \/ value_key = Len(value_mapping)
              THEN /\ value_pc' = IF taken = "" THEN "second" ELSE "done"
                   /\ value_key' = IF taken = "" THEN 1 ELSE value_key
              ELSE /\ value_pc' = value_pc
                   /\ value_key' = value_key + 1
    /\ UNCHANGED << value_field_name, value_mapping, value_error, fill_vars,
                    extract_vars, chain_vars, starter_vars, rag_vars,
                    locators_vars, script_vars >>

\* one turn of the loop over `any(word in field_name for word in
\* key.split())`; on the break or after the last key, `if not value_to_fill`
\* appends the error and continues with the next field
SecondPass ==
    /\ value_pc = "second"
    /\ LET entry == value_mapping[value_key]
           hit   == \E w \in 1..Len(split(entry.key)) :
                       contains(value_field_name, split(entry.key)[w])
           taken == IF hit THEN entry.value ELSE value_to_fill
       IN  /\ value_to_fill' = taken
           /\ IF hit \/ value_key = Len(value_mapping)
              THEN /\ value_pc' = "done"
                   /\ value_key' = value_key
                   /\ value_error' = IF taken = "" THEN NoProfileDataError ELSE ""
              ELSE /\ value_pc' = value_pc
                   /\ value_key' = value_key + 1
                   /\ value_error' = value_error
    /\ UNCHANGED << value_field_name, value_mapping, fill_vars, extract_vars,
                    chain_vars, starter_vars, rag_vars,
                    locators_vars, script_vars >>

ValueNext ==
    \/ ValueCall
    \/ FirstPass
    \/ SecondPass

SpecValue == Init /\ [][ValueNext]_vars

\* the value of the earliest key of the mapping that is a substring of the
\* name, "" when there is none
EarliestWholeKey(mapping, name) ==
    LET hits == {i \in 1..Len(mapping) : contains(name, mapping[i].key)}
    IN  IF hits = {} THEN ""
        ELSE mapping[CHOOSE i \in hits : \A j \in hits : i <= j].value

\* the value of the earliest key one of whose space-separated words is a
\* substring of the name, "" when there is none
EarliestWordKey(mapping, name) ==
    LET hits == {i \in 1..Len(mapping) :
                    \E w \in 1..Len(split(mapping[i].key)) :
                        contains(name, split(mapping[i].key)[w])}
    IN  IF hits = {} THEN ""
        ELSE mapping[CHOOSE i \in hits : \A j \in hits : i <= j].value

\* C24: the profile value of a field is chosen in two passes over the key
\* order of field_mapping: the value of the earliest key that is a substring
\* of the lowercased field name; only if that is not a non-empty value, the
\* value of the earliest key one of whose words is a substring; if neither
\* is non-empty the field fails with "No matching profile data found". This
\* is also the value the form-filling pass computes for the name.
C24_TwoPassValue ==
    value_pc = "done" =>
        LET whole == EarliestWholeKey(value_mapping, value_field_name)
            word  == EarliestWordKey(value_mapping, value_field_name)
        IN  /\ value_to_fill = IF whole # "" THEN whole ELSE word
            /\ value_error = IF whole = "" /\ word = ""
                             THEN NoProfileDataError ELSE ""
            /\ value_to_fill = ValueToFill(value_mapping, value_field_name)

\* the second pass chose the value: no whole key gave one, a word of a key did
C24_Witness ==
    /\ value_pc = "done"
    /\ EarliestWholeKey(value_mapping, value_field_name) = ""
    /\ value_to_fill # ""

(***************************************************************************)
(* src/toolCalling3.py: extract_job_application_fields_with_locators       *)
(***************************************************************************)
\* mutant: every error is retried with the reduced prompt
TokenLimitOrAnyError(e) == TRUE

\* the test of the except block on str(e)
TokenLimit(e) ==
    \/ contains(e.message, "LengthFinishReasonError")
    \/ contains(lower(e.message), "length limit")

\* the dictionary returned after the first call ("success") or after the
\* fallback call ("partial", total_fields 0); every list is
\* result_data.get(key, [])
Extracted(status, result_data, url) ==
    LET get(key) == IF key \in DOMAIN result_data THEN result_data[key] ELSE << >>
    IN  [extraction_status |-> status,
         required_fields |-> get("required_fields"),
         optional_fields |-> get("optional_fields"),
         url |-> url,
         total_fields |-> IF status = "success"
                          THEN Len(get("required_fields")) + Len(get("optional_fields"))
                          ELSE 0]

\* the dictionary returned at the end of the except block
NotExtracted(e, url) ==
    [extraction_status |-> "error", error_type |-> e.type,
     error_message |-> e.message, url |-> url,
     required_fields |-> << >>, optional_fields |-> << >>, total_fields |-> 0]

\* what structured_llm.invoke, json.loads(response.content) and
\* result_data.get make of a prompt: the content is a JSON object (data), is
\* JSON of another kind, is not JSON, or the call itself raises; e is the
\* exception the statements end in, NoException when the dictionary is built
Invoked ==
    {[content |-> "object", e |-> NoException,
      data |-> [required_fields |-> << FieldFirstName, FieldEmail >>,
                optional_fields |-> << FieldPhone >>]],
     [content |-> "object", e |-> NoException,
      data |-> [job_title |-> "Engineer"]],
     [content |-> "array",
      e |-> Exception("AttributeError", "'list' object has no attribute 'get'")],
     [content |-> "text",
      e |-> Exception("Exception", "Invalid JSON response from LLM: Expecting value")],
     [content |-> "raised",
      e |-> Exception("APIConnectionError", "Connection error.")],
     [content |-> "raised",
      e |-> Exception("LengthFinishReasonError",
                      "Could not parse response content as the length limit was reached")]}

\* a call
LocatorsCall ==
    /\ locators_pc = "idle"
    /\ \E url \in Urls : locators_url' = url
    /\ locators_pc' = "chrome"
    /\ UNCHANGED << locators_driver, assigned, invocations, locators_error,
                    locators_pending, locators_result >>
    /\ UNCHANGED << fill_vars, extract_vars, chain_vars, starter_vars, rag_vars,
                    value_vars, script_vars >>

\* one statement of the try block before the model is called:
\* webdriver.Chrome, driver.get, the wait for body, title and page_source,
\* the text of body; it completes or raises
Browse ==
    /\ locators_pc \in {"chrome", "get", "wait", "source", "body"}
    /\ \/ /\ locators_driver' = IF locators_pc = "chrome" THEN "open"
                                ELSE locators_driver
          /\ assigned' = CASE locators_pc = "source" ->
                                assigned \cup {"page_title", "html_content"}
                           [] locators_pc = "body" -> assigned \cup {"body_text"}
                           [] OTHER -> assigned
          /\ locators_pc' = CASE locators_pc = "chrome" -> "get"
                              [] locators_pc = "get" -> "wait"
                              [] locators_pc = "wait" -> "source"
                              [] locators_pc = "source" -> "body"
                              [] locators_pc = "body" -> "invoke"
          /\ UNCHANGED locators_error
       \/ /\ \E e \in (IF locators_pc = "body"
                       THEN {Exception("NoSuchElementException", "no such element")}
                       ELSE Failures(locators_pc))
                      \cup {Exception("WebDriverException",
                                      "unknown error: message length limit exceeded")} :
                locators_error' = e
          /\ locators_pc' = "except"
          /\ UNCHANGED << locators_driver, assigned >>
    /\ UNCHANGED << locators_url, invocations, locators_pending, locators_result >>
    /\ UNCHANGED << fill_vars, extract_vars, chain_vars, starter_vars, rag_vars,
                    value_vars, script_vars >>

\* response = structured_llm.invoke(prompt) with the first 8000 characters
\* of the page, json.loads, and the return of the "success" dictionary
Invoke ==
    /\ locators_pc = "invoke"
    /\ \E response \in Invoked :
          /\ invocations' = Append(invocations,
                                   [prompt |-> "prompt", html |-> 8000,
                                    content |-> response.content])
          /\ IF response.e = NoException
             THEN /\ locators_pending' =
                         Extracted("success", response.data, locators_url)
                  /\ locators_pc' = "finally"
                  /\ UNCHANGED locators_error
             ELSE /\ locators_error' = response.e
                  /\ locators_pc' = "except"
                  /\ UNCHANGED locators_pending
    /\ UNCHANGED << locators_url, locators_driver, assigned, locators_result >>
    /\ UNCHANGED << fill_vars, extract_vars, chain_vars, starter_vars, rag_vars,
                    value_vars, script_vars >>

\* except Exception as e: without the token-limit text in str(e) the "error"
\* dictionary is returned, with it the fallback is tried first
HandleError ==
    /\ locators_pc = "except"
    /\ IF TokenLimit(locators_error)
       THEN /\ locators_pc' = "fallback"
            /\ UNCHANGED locators_pending
       ELSE /\ locators_pending' = NotExtracted(locators_error, locators_url)
            /\ locators_pc' = "finally"
    /\ UNCHANGED << locators_url, locators_driver, assigned, invocations,
                    locators_error, locators_result >>
    /\ UNCHANGED << fill_vars, extract_vars, chain_vars, starter_vars, rag_vars,
                    value_vars, script_vars >>

\* the inner try: html_content[:3000] and body_text[:1000] (an
\* UnboundLocalError when the page was not read), one more call of the model,
\* json.loads and the "partial" return; `except Exception as fallback_error`
\* logs and falls through to the "error" return
Fallback ==
    /\ locators_pc = "fallback"
    /\ IF {"page_title", "html_content", "body_text"} \subseteq assigned
       THEN \E response \in Invoked :
               /\ invocations' = Append(invocations,
                                        [prompt |-> "simplified_prompt",
                                         html |-> 3000,
                                         content |-> response.content])
               /\ locators_pending' =
                     IF response.e = NoException
                     THEN Extracted("partial", response.data, locators_url)
                     ELSE NotExtracted(locators_error, locators_url)
       ELSE /\ locators_pending' = NotExtracted(locators_error, locators_url)
            /\ UNCHANGED invocations
    /\ locators_pc' = "finally"
    /\ UNCHANGED << locators_url, locators_driver, assigned, locators_error,
                    locators_result >>
    /\ UNCHANGED << fill_vars, extract_vars, chain_vars, starter_vars, rag_vars,
                    value_vars, script_vars >>

\* finally: driver.quit() when a driver exists, a failure of quit is logged;
\* then the pending return takes effect
Cleanup ==
    /\ locators_pc = "finally"
    /\ \E quit \in QuitOutcomes : locators_driver' = AfterQuit(locators_driver, quit)
    /\ locators_result' = locators_pending
    /\ locators_pc' = "done"
    /\ UNCHANGED << locators_url, assigned, invocations, locators_error,
                    locators_pending >>
    /\ UNCHANGED << fill_vars, extract_vars, chain_vars, starter_vars, rag_vars,
                    value_vars, script_vars >>

LocatorsNext ==
    \/ LocatorsCall
    \/ Browse
    \/ Invoke
    \/ HandleError
    \/ Fallback
    \/ Cleanup

SpecLocators == Init /\ [][LocatorsNext]_vars

\* the except block is handling an error that reports the token limit
TokenLimitError ==
    /\ locators_error # NoException
    /\ contains(lower(locators_error.message), "length limit")

\* the calls of the model made with the reduced prompt
FallbackCalls ==
    {n \in 1..Len(invocations) : invocations[n].prompt = "simplified_prompt"}

\* C26: extract_job_application_fields_with_locators always returns, with an
\* extraction_status of "success", "partial" or "error": "success" only when
\* the first call of the model gave parseable JSON; after a token-limit error
\* at most one fallback call is made, with the reduced content, and the
\* status is "partial" exactly when that call gave a usable answer; after any
\* other error, or when the fallback fails as well (the page content having
\* been read or not), the status is "error" with empty field lists and
\* total_fields 0; and a session that was created has been quit.
C26_StatusAndCleanup ==
    /\ Len(invocations) <= 2
    /\ locators_pc = "done" =>
          /\ locators_result.extraction_status \in {"success", "partial", "error"}
          /\ locators_driver # "open"
          /\ locators_result.extraction_status = "success" =>
                /\ Len(invocations) = 1
                /\ invocations[1].prompt = "prompt"
                /\ invocations[1].content = "object"
          /\ locators_result.extraction_status = "partial" <=>
                /\ TokenLimitError
                /\ FallbackCalls # {}
                /\ invocations[Len(invocations)].content = "object"
          /\ locators_error # NoException =>
                /\ Cardinality(FallbackCalls) =
                      IF TokenLimitError /\ "body_text" \in assigned
                      THEN 1 ELSE 0
                /\ \A n \in FallbackCalls : invocations[n].html = 3000
          /\ locators_result.extraction_status = "error" =>
                /\ locators_error # NoException
                /\ locators_result.required_fields = << >>
                /\ locators_result.optional_fields = << >>
                /\ locators_result.total_fields = 0

\* a token-limit error of the first call was followed by a fallback call that
\* gave a usable answer
C26_Witness ==
    /\ locators_pc = "done"
    /\ Len(invocations) = 2
    /\ locators_error.type = "LengthFinishReasonError"
    /\ locators_result.extraction_status = "partial"
    /\ locators_driver = "quit"

(***************************************************************************)
(* src/test_script.py: main                                                *)
(***************************************************************************)
\* test_field_extraction(test_url): the tool is invoked; a "success" result
\* is printed field by field (a descriptor without one of the keys printed
\* raises KeyError, which nothing catches) and returned, any other result
\* gives None
TestFieldExtraction ==
    /\ script_pc = "idle"
    /\ \E url \in Urls \cup {"https://jobs.ashbyhq.com/example/application"},
          returned \in
             {Extracted("success", [required_fields |-> required], "") :
                 required \in {<< >>, << FieldFirstName >>,
                               << FieldFirstName, FieldEmail, FieldCountry >>,
                               << FieldNoLocator >>}}
             \cup {Extracted("partial", [job_title |-> "Engineer"], ""),
                   NotExtracted(Exception("TimeoutException", ""), "")} :
          LET printed == \A n \in 1..Len(returned.required_fields) :
                            FormFieldValid(returned.required_fields[n])
          IN  /\ test_url' = url
              /\ extraction_status' = returned.extraction_status
              /\ IF returned.extraction_status # "success"
                 THEN /\ extraction_result' = << >>
                      /\ script_pc' = "filling"
                      /\ UNCHANGED << script_raised, exit_code >>
                 ELSE IF printed
                 THEN /\ extraction_result' = << [returned EXCEPT !.url = url] >>
                      /\ script_pc' = "filling"
                      /\ UNCHANGED << script_raised, exit_code >>
                 ELSE /\ script_raised' = "KeyError"
                      /\ exit_code' = 1
                      /\ script_pc' = "done"
                      /\ UNCHANGED extraction_result
    /\ steps' = Append(steps, "extract_job_application_fields_with_locators")
    /\ UNCHANGED filling_result
    /\ UNCHANGED << fill_vars, extract_vars, chain_vars, starter_vars, rag_vars,
                    value_vars, locators_vars >>

\* `if extraction_result and extraction_result["extraction_status"] ==
\* "success"`: test_form_filling invokes the form-filling tool and returns
\* its dictionary; otherwise the step is skipped
TestFormFilling ==
    /\ script_pc = "filling"
    /\ IF extraction_result # << >>
          /\ extraction_result[1].extraction_status = "success"
       THEN LET fields == extraction_result[1].required_fields
                         \o extraction_result[1].optional_fields
                total  == Len(fields)
            IN  /\ \E filled \in 0..total, raised \in BOOLEAN :
                      filling_result' =
                         IF raised
                         THEN << ErrorResult("WebDriverException", << >>, << >>,
                                             "", total) >>
                         ELSE << FillingResult(
                                    [n \in 1..filled |-> fields[n].field_name],
                                    [n \in 1..(total - filled) |->
                                        Failed(fields[filled + n], NotFoundError)],
                                    "screenshots/filled_form.png", total) >>
                /\ steps' = Append(steps, "fill_job_application_form")
       ELSE UNCHANGED << filling_result, steps >>
    /\ script_pc' = "saving"
    /\ UNCHANGED << test_url, extraction_status, extraction_result,
                    script_raised, exit_code >>
    /\ UNCHANGED << fill_vars, extract_vars, chain_vars, starter_vars, rag_vars,
                    value_vars, locators_vars >>

\* `if extraction_result: save_results_to_file(...)`: mkdir, open and
\* json.dump are not inside a try, so a failure (test_results is a file, the
\* directory is not writable) ends the run with a traceback and status 1
SaveResults ==
    /\ script_pc = "saving"
    /\ \/ /\ script_pc' = "summary"
          /\ UNCHANGED << script_raised, exit_code >>
       \/ /\ extraction_result # << >>
          /\ script_raised' = "OSError"
          /\ exit_code' = 1
          /\ script_pc' = "done"
    /\ UNCHANGED << test_url, extraction_status, extraction_result,
                    filling_result, steps >>
    /\ UNCHANGED << fill_vars, extract_vars, chain_vars, starter_vars, rag_vars,
                    value_vars, locators_vars >>

\* the summary and the return of main; sys.exit(exit_code)
Summarise ==
    /\ script_pc = "summary"
    /\ exit_code' =
          IF /\ extraction_result # << >>
             /\ extraction_result[1].extraction_status = "success"
             /\ \/ filling_result = << >>
                \/ filling_result[1].filling_status \in {"success", "partial"}
          THEN 0 ELSE 1
    /\ script_pc' = "done"
    /\ UNCHANGED << test_url, extraction_status, extraction_result,
                    filling_result, steps, script_raised >>
    /\ UNCHANGED << fill_vars, extract_vars, chain_vars, starter_vars, rag_vars,
                    value_vars, locators_vars >>

ScriptNext ==
    \/ TestFieldExtraction
    \/ TestFormFilling
    \/ SaveResults
    \/ Summarise

SpecScript == Init /\ [][ScriptNext]_vars

\* C27 (as claimed): the form-filling tool is invoked only after the
\* extraction tool has returned, and returned "success"; and the run ends
\* with exit code 0 exactly when the extraction succeeded and the form
\* filling returned "success" or "partial", with 1 in every other case.
C27_FillAfterExtractionExitCode ==
    /\ \A n \in 1..Len(steps) :
          steps[n] = "fill_job_application_form" =>
             /\ n = 2
             /\ steps[1] = "extract_job_application_fields_with_locators"
             /\ extraction_status = "success"
    /\ script_pc = "done" =>
          /\ exit_code \in {0, 1}
          /\ exit_code = 0 <=>
                /\ extraction_status = "success"
                /\ filling_result # << >>
                /\ filling_result[1].filling_status \in {"success", "partial"}

\* the keys every returned dictionary has
ResultKeys ==
    {"filling_status", "filled_fields", "failed_fields", "screenshot_path",
     "total_fields", "success_rate"}

\* C21: field data that parses and whose extraction_status is not "success"
\* is rejected before a browser session exists: once the call has begun it
\* has returned filling_status "error" with empty filled_fields and
\* failed_fields, total_fields 0 and success_rate 0, no session was created
\* and no page was opened.
C21_UnsuccessfulExtractionRejected ==
    (/\ pc # "idle"
     /\ field_data.valid_json
     /\ field_data.extraction_status # "success")
    => /\ pc = "done"
       /\ driver = "none"
       /\ dom = << >>
       /\ result.filling_status = "error"
       /\ result.filled_fields = << >>
       /\ result.failed_fields = << >>
       /\ result.total_fields = 0
       /\ result.success_rate = 0

\* a call was given the data of a partial extraction
C21_Witness ==
    /\ pc = "done"
    /\ field_data.valid_json
    /\ field_data.extraction_status = "partial"
    /\ field_data.missing = ""

\* C22: fill_job_application_form never raises: whatever the input (text that
\* is not JSON, missing keys, a profile lacking a mapped key, a browser that
\* fails to start or to load, a failing screenshot, a failing quit) the call
\* ends in a returned dictionary that has filled_fields, failed_fields,
\* screenshot_path, total_fields and success_rate and whose filling_status is
\* "success", "partial" or "error".
C22_AlwaysReturnsResult ==
    pc = "done"
    => /\ ResultKeys \subseteq DOMAIN result
       /\ result.filling_status \in {"success", "partial", "error"}

\* a call ended by a KeyError: a key missing from the field data, or from the
\* profile once the browser was up
C22_Witness ==
    /\ pc = "done"
    /\ \/ field_data.missing = "url"
       \/ /\ driver # "none"
          /\ "error_message" \in DOMAIN result
          /\ result.error_message = "KeyError"

\* C23 (as claimed): a field name is appended to filled_fields only if the
\* mutation of its type was applied to its element: the value typed for the
\* typing types, an option selected for a select, the box left selected for a
\* checkbox or radio; a type without a branch has no mutation to apply.
C23_FilledOnlyIfApplied ==
    [][(pc = "fill" /\ filled_fields' # filled_fields) =>
          LET field_type == CurrentField.field_type
              after      == dom'[element]
          IN  IF field_type \in {"text", "email", "tel", "url", "password", "textarea"}
              THEN after.value = ValueToFill(field_mapping(DUMMY_PROFILE),
                                             lower(CurrentField.field_name))
              ELSE IF field_type \in {"select", "checkbox", "radio"}
              THEN after.selected # 0
              ELSE FALSE]_vars

\* C25: a lookup makes a bounded number of probes: its candidate list has the
\* five fixed entries plus at most one category pair (the pair of "name",
\* else of "email", else of "phone"), so at most seven candidates, and each
\* candidate is probed at most once, in list order.
C25_BoundedProbes ==
    InLookup =>
        /\ Len(strategies) \in {5, 7}
        /\ SubSeq(strategies, 6, Len(strategies)) \in
              {<< >>, CategoryStrategies("name"), CategoryStrategies("email"),
               CategoryStrategies("phone")}
        /\ Len(probed) <= Len(strategies)
        /\ \A i \in 1..Len(probed) : probed[i] = i

\* a lookup for a name holding both "name" and "email" probed all of its
\* seven candidates and returned None
C25_Witness ==
    /\ pc = "fill"
    /\ CurrentField.field_name = "Username or Email"
    /\ Len(probed) = 7
    /\ element = None

====
